---- MODULE Spec2Model ----
(***************************************************************************)
(* Model of plenty_api/api.py (class PlentyApi): the request executor      *)
(* __plenty_api_request with its 429 retry loop, the standard paginator    *)
(* __repeat_get_request_for_all_records and the probing paginator          *)
(* __repeat_get_request_for_all_unpaginated_records, run against a server  *)
(* that holds a finite list of pages and may throttle or fail a request.   *)
(*                                                                         *)
(* JSON values are records tagged with `kind`:                             *)
(*   [kind |-> "dict", <key> |-> <value>, ...]   a mapping, keys as fields *)
(*   [kind |-> "list", items |-> <<...>>]        a list                    *)
(*   [kind |-> "str",  value |-> "..."]          a string                  *)
(* None is [kind |-> "none"]; an exception that leaves the method is       *)
(* [kind |-> "raised", exc |-> <name>]; a body that is not JSON is         *)
(* [kind |-> "nojson"].                                                     *)
(***************************************************************************)
EXTENDS Integers, Sequences, FiniteSets, TLC

\* ------------------------------------------------------------------ bounds
\* most pages the server holds
MaxPages == 3
\* most consecutive 429 answers the server gives to one request
MaxThrottle == 2
\* number of distinct record values
NumRecords == 3
\* the itemsPerPage a caller supplies in its query
SuppliedItemsPerPage == 2
\* the page a caller supplies in its query
SuppliedPage == 2

\* ------------------------------------------------------- program constants
\* query.update({'itemsPerPage':100})
DefaultItemsPerPage == 100
\* if raw_response.status_code != 429
TooManyRequests == 429

\* ------------------------------------------------------------ JSON values
None == [kind |-> "none"]
NoJson == [kind |-> "nojson"]
List(items) == [kind |-> "list", items |-> items]
Str(s) == [kind |-> "str", value |-> s]
Raised(exc) == [kind |-> "raised", exc |-> exc]

\* isinstance(response, dict)
isinstance_dict(v) == v.kind = "dict"
\* isinstance(response, list)
isinstance_list(v) == v.kind = "list"
\* Python truth value of a decoded response (`if not response`): None, an
\* empty list and an empty mapping are false
truthy(v) ==
    /\ v.kind # "none"
    /\ (v.kind = "list" => v.items # <<>>)
    /\ (v.kind = "dict" => DOMAIN v # {"kind"})
\* isinstance(response, dict) and 'error' in response.keys()
is_error_mapping(v) == isinstance_dict(v) /\ "error" \in DOMAIN v

\* query.update({key: value}) on a mapping held as a function
update(query, key, value) ==
    [k \in DOMAIN query \cup {key} |-> IF k = key THEN value ELSE query[k]]

\* ----------------------------------------------------------------- server
\* the record at position i of page p
RecordAt(p, i) == (p + i) % NumRecords
\* a page of n records
PageOfSize(p, n) == [i \in 1..n |-> RecordAt(p, i)]
PageSizes == {0, 1, SuppliedItemsPerPage, DefaultItemsPerPage}
\* the servers: 1..MaxPages pages, each of a size in PageSizes
Servers ==
    UNION {[1..n -> PageSizes] : n \in 1..MaxPages}

\* the page number a GET asks for (the server's default is the first page)
RequestedPage(query) == IF "page" \in DOMAIN query THEN query["page"] ELSE 1

\* the standard paginated body the server sends for a GET with `query`
PageBody(sizes, query) ==
    LET p == RequestedPage(query)
        n == Len(sizes)
    IN  [kind |-> "dict",
         page |-> p,
         lastPageNumber |-> n,
         isLastPage |-> p >= n,
         totalsCount |-> n,
         entries |-> IF p \in 1..n THEN PageOfSize(p, sizes[p]) ELSE <<>>]

\* the answers that are not a page: bodies that are no JSON, error mappings
\* (error as a mapping with a message, as a mapping without one, as a plain
\* reason-code string), an empty list, a flat list and an empty mapping
ErrorWithMessage ==
    [kind |-> "dict", error |-> [kind |-> "dict", message |-> "failure"]]
ErrorWithoutMessage ==
    [kind |-> "dict", error |-> [kind |-> "dict", code |-> "failure"]]
ErrorReasonCode == [kind |-> "dict", error |-> Str("invalid_token")]
FlatList == List(<<0, 1>>)
FaultBodies ==
    {NoJson, ErrorWithMessage, ErrorWithoutMessage, ErrorReasonCode,
     List(<<>>), FlatList, [kind |-> "dict"]}

\* an HTTP response
Response(status, body) == [status_code |-> status, body |-> body]
ThrottleResponse == Response(TooManyRequests, ErrorWithMessage)
NoResponse == Response(0, None)

\* the queries a caller passes in: a filter, with or without itemsPerPage
\* and page
BaseQuery == [k \in {"typeID"} |-> 15]
Queries ==
    LET withItems ==
            {BaseQuery, update(BaseQuery, "itemsPerPage", SuppliedItemsPerPage)}
    IN  withItems \cup {update(q, "page", SuppliedPage) : q \in withItems}

\* -------------------------------------------------------------- variables
VARIABLES
    pages,          \* server: the size of each page it holds
    mode,           \* the paginator running: "none", "standard", "unpaginated"
    query0,         \* the query as the caller built it
    query,          \* the query mapping, mutated in place by the paginator
    pc,             \* "idle", "request", "response", "done"
    phase,          \* "first": the request before the loop, "next": in the loop
    raw_response,   \* __plenty_api_request: the latest HTTP response
    first,          \* the request of the first attempt of the current call
    attempt,        \* the request of the latest attempt of the current call
    throttles,      \* 429 answers received in the current call
    throttledEver,  \* some request of this fetch was throttled
    response,       \* the value the latest executor call returned
    returnStatus,   \* the status of raw_response when the executor returned
    page_info,      \* the page descriptor detected on the first response
    entries,        \* the accumulator
    result,         \* what the paginator returned
    calls,          \* calls of __plenty_api_request made by the paginator
    requested,      \* the page each call asked for, in call order
    faultCall,      \* the call the server answered with a fault (0: none)
    faultBody       \* the body of that answer

\* the client object and its construction (__init__, __authenticate)
VARIABLES
    url,            \* self.url
    creds,          \* self.creds['Authorization']
    data_format,    \* self.data_format ("": not yet set)
    login_method,   \* the login_method argument of the constructor
    login_data,     \* the login_data argument of the constructor
    data_format_arg, \* the data_format argument of the constructor
    environment,    \* what the credential sources of this machine hold
    loginAnswers,   \* server: its answers to the first and second login POST
    apc,            \* "new", "posted", "reposted", "constructed", "failed"
    posts,          \* login POSTs sent
    prompted,       \* the interactive credential prompts, in call order
    login_response, \* __authenticate: the latest login response
    lockedLogged,   \* the "account is locked" error was logged
    logged_in,      \* what __authenticate returned or raised (None: running)
    lastRequest     \* the latest request the constructed client sent

\* one call of a mutation method
VARIABLES
    mcall,          \* the method called, with its arguments
    mresult,        \* what it returned
    mrequests       \* the requests it handed to __plenty_api_request

\* the steps of plenty_api_create_redistribution / plenty_api_create_reorder
VARIABLES
    opc,            \* "none", "start", "outgoing", "incoming", "returned"
    order,          \* response: what the order POST returned
    outgoing,       \* the outgoing transactions built from the order
    incoming,       \* the incoming transactions built from the order
    todo            \* the transactions the running loop has yet to create

\* two fetches whose steps interleave
VARIABLES
    fetches,        \* the local variables of each of the two paginator calls
    clients,        \* the session (url, creds, data_format) of each client
    owner,          \* the client each fetch runs on
    overlapped      \* both calls were between their start and their return

fetchVars ==
    <<pages, mode, query0, query, pc, phase, raw_response, first, attempt,
      throttles, throttledEver, response, returnStatus, page_info, entries,
      result, calls, requested, faultCall, faultBody>>

sessionVars == <<url, creds, data_format>>

authVars ==
    <<login_method, login_data, data_format_arg, environment, loginAnswers, apc, posts,
      prompted, login_response, lockedLogged, logged_in, lastRequest>>

orderVars == <<opc, order, outgoing, incoming, todo>>

mutationVars == <<mcall, mresult, mrequests, orderVars>>

pairVars == <<fetches, clients, owner, overlapped>>

vars == <<fetchVars, sessionVars, authVars, mutationVars, pairVars>>

\* -------------------------------------------------- __plenty_api_request
\* a request sent without the session's header
build_request_anonymous(method, q) ==
    [method |-> method, query |-> q, headers |-> [Authorization |-> ""]]

\* the request one loop iteration sends: requests.get(endpoint,
\* headers=self.creds, params=query), likewise for post and put
build_request(method, q) ==
    [method |-> method, query |-> q, headers |-> [Authorization |-> creds]]

\* a retry loop that never retries
throttled_never(raw) == FALSE

\* a retry loop that gives up after one retry
throttled_capped(raw) == raw.status_code = TooManyRequests /\ throttles < 2

\* a retry loop that is never left
throttled_always(raw) == TRUE

\* `if raw_response.status_code != 429: break`, negated: the loop goes on
throttled(raw) == raw.status_code = TooManyRequests

\* the code after the loop: decode the body, log an embedded error, return
plenty_api_request_return(raw) ==
    IF raw.body.kind = "nojson"
    THEN None                       \* except JSONDecodeError: return None
    ELSE IF is_error_mapping(raw.body)
    THEN \* logging.error(f"...{response['error']['message']}")
         IF ~isinstance_dict(raw.body.error) THEN Raised("TypeError")
         ELSE IF "message" \notin DOMAIN raw.body.error THEN Raised("KeyError")
         ELSE raw.body
    ELSE raw.body

\* ------------------------------------------------- sniff_response_format
NoPageInfo ==
    [page |-> "", last_page |-> "", data |-> "", end_condition |-> ""]
\* the descriptor of the standard paginated shape
sniff_response_format(resp) ==
    [page |-> "page", last_page |-> "lastPageNumber", data |-> "entries",
     end_condition |-> "isLastPage"]
\* an end test that holds for every page
end_condition_at_once(info, resp) == TRUE

\* page_info['end_condition'](response)
end_condition(info, resp) == resp[info.end_condition]

\* ------------------------------------------------------ paginator steps
\* what the paginator does with one executor result: return, or go on to
\* the next executor call with an updated query and accumulator
Return(v, q, e, info) ==
    [done |-> TRUE, result |-> v, query |-> q, entries |-> e, page_info |-> info]
Continue(q, e, info) ==
    [done |-> FALSE, result |-> None, query |-> q, entries |-> e,
     page_info |-> info]

\* the new page put in front of the accumulator instead of behind it
accumulate_in_front(e, resp, info) == resp[info.data] \o e

\* entries += response[page_info['data']]
accumulate(e, resp, info) == e \o resp[info.data]

\* a loop that asks for the page after the next one
next_page_skipping(resp, info) == resp[info.page] + 2

\* query.update({'page': response[page_info['page']] + 1})
next_page(resp, info) == resp[info.page] + 1

\* a loop that sends a fresh mapping holding the page alone
standard_loop_fresh_query(resp, q, e, info) ==
    IF end_condition(info, resp)
    THEN Return(List(e), q, e, info)
    ELSE Continue([k \in {"page"} |-> next_page(resp, info)], e, info)

\* while not page_info['end_condition'](response): ... ; return entries
standard_loop(resp, q, e, info) ==
    IF end_condition(info, resp)
    THEN Return(List(e), q, e, info)
    ELSE Continue(update(q, "page", next_page(resp, info)), e, info)

\* __repeat_get_request_for_all_records, from the first response to the
\* first loop test
standard_first(resp, q) ==
    IF resp.kind = "raised" THEN Return(resp, q, <<>>, NoPageInfo)
    ELSE IF ~truthy(resp) THEN Return(None, q, <<>>, NoPageInfo)
    ELSE IF is_error_mapping(resp) \/ isinstance_list(resp)
    THEN Return(resp, q, <<>>, NoPageInfo)
    ELSE LET info == sniff_response_format(resp)
         IN  standard_loop(resp, q, resp[info.data], info)

\* a loop iteration that hands back the records gathered so far when a page
\* request fails
standard_next_partial(resp, q, e, info) ==
    IF resp.kind = "raised" THEN Return(resp, q, e, info)
    ELSE IF ~truthy(resp) \/ is_error_mapping(resp)
    THEN Return(List(e), q, e, info)
    ELSE IF isinstance_list(resp) THEN Return(Raised("TypeError"), q, e, info)
    ELSE IF end_condition(info, resp)
    THEN Return(List(e \o resp[info.data]), q, e \o resp[info.data], info)
    ELSE Continue(update(q, "page", resp[info.page] + 1),
                  e \o resp[info.data], info)

\* __repeat_get_request_for_all_records, one loop iteration from the
\* response to the next loop test
standard_next(resp, q, e, info) ==
    IF resp.kind = "raised" THEN Return(resp, q, e, info)
    ELSE IF ~truthy(resp) THEN Return(None, q, e, info)
    ELSE IF is_error_mapping(resp) THEN Return(resp, q, e, info)
    ELSE IF isinstance_list(resp) THEN Return(Raised("TypeError"), q, e, info)
    ELSE standard_loop(resp, q, accumulate(e, resp, info), info)

\* defaults that replace an itemsPerPage the caller supplied
unpaginated_defaults_forced(q) ==
    LET q1 == update(q, "itemsPerPage", DefaultItemsPerPage)
    IN  IF "page" \notin DOMAIN q1 THEN update(q1, "page", 1) ELSE q1

\* __repeat_get_request_for_all_unpaginated_records: the defaults set
\* before the first request
unpaginated_defaults(q) ==
    LET q1 == IF "itemsPerPage" \notin DOMAIN q
              THEN update(q, "itemsPerPage", DefaultItemsPerPage)
              ELSE q
    IN  IF "page" \notin DOMAIN q1 THEN update(q1, "page", 1) ELSE q1

\* a stop test that also stops on an exactly full page
short_page_or_full(resp, info, q) == Len(resp[info.data]) <= q["itemsPerPage"]

\* a stop test that stops only on an empty page
short_page_empty(resp, info, q) == Len(resp[info.data]) = 0

\* if len(response[page_info['data']]) < query['itemsPerPage']: break
short_page(resp, info, q) == Len(resp[info.data]) < q["itemsPerPage"]

\* a loop that advances the page by two
unpaginated_loop_skip(q, e, info) ==
    Continue(update(q, "page", q["page"] + 2), e, info)

\* query.update({'page': query['page'] + 1}), first statement of `while True`
unpaginated_loop(q, e, info) ==
    Continue(update(q, "page", q["page"] + 1), e, info)

\* __repeat_get_request_for_all_unpaginated_records, from the first
\* response into the loop
unpaginated_first(resp, q) ==
    IF resp.kind = "raised" THEN Return(resp, q, <<>>, NoPageInfo)
    ELSE IF ~truthy(resp) THEN Return(None, q, <<>>, NoPageInfo)
    ELSE IF is_error_mapping(resp) \/ isinstance_list(resp)
    THEN Return(resp, q, <<>>, NoPageInfo)
    ELSE LET info == sniff_response_format(resp)
         IN  unpaginated_loop(q, resp[info.data], info)

\* a probing loop iteration that hands back the records gathered so far
\* when a page request fails
unpaginated_next_partial(resp, q, e, info) ==
    IF resp.kind = "raised" THEN Return(resp, q, e, info)
    ELSE IF ~truthy(resp) \/ is_error_mapping(resp)
    THEN Return(List(e), q, e, info)
    ELSE IF isinstance_list(resp) THEN Return(Raised("TypeError"), q, e, info)
    ELSE IF short_page(resp, info, q)
    THEN Return(List(e \o resp[info.data]), q, e \o resp[info.data], info)
    ELSE Continue(update(q, "page", q["page"] + 1), e \o resp[info.data],
                  info)

\* __repeat_get_request_for_all_unpaginated_records, one loop iteration
\* from the response to the break test
unpaginated_next(resp, q, e, info) ==
    IF resp.kind = "raised" THEN Return(resp, q, e, info)
    ELSE IF ~truthy(resp) THEN Return(None, q, e, info)
    ELSE IF is_error_mapping(resp) THEN Return(resp, q, e, info)
    ELSE IF isinstance_list(resp) THEN Return(Raised("TypeError"), q, e, info)
    ELSE IF short_page(resp, info, q)
    THEN Return(List(accumulate(e, resp, info)), q,
                accumulate(e, resp, info), info)
    ELSE unpaginated_loop(q, accumulate(e, resp, info), info)

\* ------------------------------------------------------ the login server
BaseUrl == "https://shop.plentymarkets-cloud01.com"

\* a login answer that carries a token
TokenBody(access) ==
    [kind |-> "dict", token_type |-> "Bearer", access_token |-> access]
\* the answer to rejected credentials
InvalidCredentials == [kind |-> "dict", error |-> Str("invalid_credentials")]
\* a mapping without the access token
NoTokenBody == [kind |-> "dict", token_type |-> "Bearer"]
\* the bodies the server may answer the n-th login POST with
LoginBodies(n) ==
    {TokenBody(IF n = 1 THEN "t1" ELSE "t2"), InvalidCredentials,
     ErrorWithMessage, NoTokenBody, NoJson, FlatList}
LoginResponses(n) ==
    {Response(status, body) : status \in {200, 403}, body \in LoginBodies(n)}
LoginAnswers ==
    {<<r1, r2>> : r1 \in LoginResponses(1), r2 \in LoginResponses(2)}

\* the constructor's arguments and the machine it runs on
ValidLoginMethods ==
    {"keyring", "direct", "gpg_encrypted", "plain_text", "azure_credential"}
LoginMethods == ValidLoginMethods \cup {"oauth"}
FullLoginData ==
    [kind |-> "dict", user |-> "u", password |-> "p", file_path |-> "f",
     credential_identifier |-> "c"]
LoginDataValues == {None, Str("keyring"), [kind |-> "dict"], FullLoginData}
Environments ==
    [stored : BOOLEAN, gpg : {"decrypted", "no_file", "failed"},
     automationassets : BOOLEAN]

\* ---------------------------------------------------------- __authenticate
\* what a part of __authenticate ends with: the credentials to post, the
\* value it returns, or the exception it raises
Credentials(prompts) == [kind |-> "creds", prompts |-> prompts]
Returned(value, prompts) ==
    [kind |-> "returned", value |-> value, prompts |-> prompts]
Bool(value) == [kind |-> "bool", value |-> value]

\* `key in login_data` for each key: TypeError for None, a substring test
\* for a string (no key is a substring of 'keyring'), membership for a dict
has_keys(data, keys) ==
    IF data.kind = "none" THEN Raised("TypeError")
    ELSE IF data.kind = "str" THEN Bool(FALSE)
    ELSE Bool(keys \subseteq DOMAIN data)

\* the credentials of login data that must hold `keys`
keyed_credentials(data, keys, acquired) ==
    LET has == has_keys(data, keys)
    IN  IF has.kind = "raised" THEN has
        ELSE IF ~has.value THEN Raised("InvalidLoginAttempt")
        ELSE acquired

\* __authenticate up to the first login POST: the credentials of the
\* strategy
acquire_credentials(method, data, env) ==
    IF method \notin ValidLoginMethods THEN Raised("InvalidLoginAttempt")
    ELSE IF method = "keyring"
    THEN IF env.stored THEN Credentials(<<>>)
         ELSE Credentials(<<"new_keyring_creds">>)
    ELSE IF method = "direct" THEN Credentials(<<"get_temp_creds">>)
    ELSE IF method = "plain_text"
    THEN keyed_credentials(data, {"user", "password"}, Credentials(<<>>))
    ELSE IF method = "gpg_encrypted"
    THEN keyed_credentials(data, {"user", "file_path"},
             IF env.gpg = "decrypted" THEN Credentials(<<>>)
             ELSE Returned(FALSE, <<>>))
    ELSE IF ~env.automationassets THEN Raised("InvalidLoginAttempt")
    ELSE keyed_credentials(data, {"credential_identifier"}, Credentials(<<>>))

\* response.json()
response_json(resp) ==
    IF resp.body.kind = "nojson" THEN Raised("JSONDecodeError") ELSE resp.body

\* utils.build_login_token(response_json=...)
build_login_token(json) ==
    IF ~isinstance_dict(json) THEN Raised("TypeError")
    ELSE IF ~({"token_type", "access_token"} \subseteq DOMAIN json)
    THEN Raised("KeyError")
    ELSE Str(json.token_type \o " " \o json.access_token)

\* utils.build_login_token(response_json=response.json())
login_token(resp) ==
    LET json == response_json(resp)
    IN  IF json.kind = "raised" THEN json ELSE build_login_token(json)

\* what __authenticate does after a login answer
Store(token) == [next |-> "store", token |-> token, exc |-> ""]
ReturnFalse == [next |-> "return_false", token |-> "", exc |-> ""]
Raise(exc) == [next |-> "raise", token |-> "", exc |-> exc]
Retry == [next |-> "retry", token |-> "", exc |-> ""]

\* `if not token: return False`, else the token is stored
check_token(token) == IF token = "" THEN ReturnFalse ELSE Store(token)

\* the test that opens the retry path
wants_retry(resp, method, data) ==
    resp.body.error = Str("invalid_credentials") /\ data = Str("keyring")

\* __authenticate from the first login answer to its return or to the
\* second login POST
authenticate_first(resp, method, data) ==
    LET token == login_token(resp)
    IN  IF token.kind = "str" THEN check_token(token.value)
        ELSE IF token.exc # "KeyError" THEN Raise(token.exc)
        ELSE IF "error" \notin DOMAIN resp.body THEN check_token("")
        ELSE IF wants_retry(resp, method, data) THEN Retry
        ELSE ReturnFalse

\* a second answer whose missing token is not checked before it is stored
authenticate_retry_unchecked(resp) ==
    LET token == login_token(resp)
    IN  IF token.kind = "str" THEN Store(token.value)
        ELSE IF token.exc # "KeyError" THEN Raise(token.exc)
        ELSE Store("")

\* __authenticate from the second login answer to its return
authenticate_retry(resp) ==
    LET token == login_token(resp)
    IN  IF token.kind = "str" THEN check_token(token.value)
        ELSE IF token.exc # "KeyError" THEN Raise(token.exc)
        ELSE check_token("")

\* what __authenticate hands to __init__ at the end of a step
authenticate_result(step) ==
    IF step.next = "raise" THEN Raised(step.exc)
    ELSE Bool(step.next = "store")

\* str.lower() on the strings of the model
lower(string) ==
    CASE string = "PUT" -> "put"
      [] string = "DataFrame" -> "dataframe"
      [] OTHER -> string

\* the data_format arguments callers pass
DataFormats == {"json", "dataframe", "DataFrame", "csv"}

\* a constructor that stores the argument as it was passed
select_data_format_as_passed(wanted) == wanted

\* self.data_format = data_format.lower(), replaced by 'json' when that is
\* not in ['json', 'dataframe']
select_data_format(wanted) ==
    IF lower(wanted) \notin {"json", "dataframe"} THEN "json"
    ELSE lower(wanted)

\* a constructor that does not look at what __authenticate returned
construct_unchecked(logged) ==
    IF logged.kind = "raised" THEN "failed" ELSE "constructed"

\* __init__ after __authenticate: `if not logged_in: raise RuntimeError`
construct(logged) ==
    IF logged.kind = "bool" /\ logged.value THEN "constructed" ELSE "failed"

\* ------------------------------------------------ states of the other parts
\* a client whose construction is over, with its token
SessionEstablished ==
    /\ url = BaseUrl
    /\ creds = "Bearer t1"
    /\ data_format = "json"
    /\ data_format_arg = "json"
    /\ login_method = "plain_text"
    /\ login_data = FullLoginData
    /\ environment = [stored |-> TRUE, gpg |-> "decrypted",
                      automationassets |-> FALSE]
    /\ loginAnswers = <<Response(200, TokenBody("t1")),
                        Response(200, TokenBody("t2"))>>
    /\ apc = "constructed"
    /\ posts = 1
    /\ prompted = <<>>
    /\ login_response = Response(200, TokenBody("t1"))
    /\ lockedLogged = FALSE
    /\ logged_in = Bool(TRUE)
    /\ lastRequest = None

\* no mutation method has been called
NoMutationCall ==
    /\ mcall = None
    /\ mresult = None
    /\ mrequests = <<>>
    /\ opc = "none"
    /\ order = None
    /\ outgoing = <<>>
    /\ incoming = <<>>
    /\ todo = <<>>

\* ----------------------------------------------------------------- actions
\* no fetch is running
\* no pair of interleaved fetches is followed
NoFetchPair ==
    /\ fetches = <<>>
    /\ clients = <<>>
    /\ owner = <<>>
    /\ overlapped = FALSE

IdleFetch ==
    /\ query = query0
    /\ mode = "none"
    /\ pc = "idle"
    /\ phase = "first"
    /\ raw_response = NoResponse
    /\ first = build_request("none", query0)
    /\ attempt = build_request("none", query0)
    /\ throttles = 0
    /\ throttledEver = FALSE
    /\ response = None
    /\ returnStatus = 0
    /\ page_info = NoPageInfo
    /\ entries = <<>>
    /\ result = None
    /\ calls = 0
    /\ requested = <<>>
    /\ faultCall = 0
    /\ faultBody = None

Init ==
    /\ SessionEstablished
    /\ NoMutationCall
    /\ pages \in Servers
    /\ query0 \in Queries
    /\ IdleFetch
    /\ NoFetchPair

\* the paginator calls self.__plenty_api_request(method='get', query=q)
Call(q) ==
    /\ pc' = "request"
    /\ calls' = calls + 1
    /\ throttles' = 0
    /\ requested' = Append(requested, RequestedPage(q))

\* a caller starts __repeat_get_request_for_all_records with its query
StartStandard ==
    /\ pc = "idle"
    /\ mode' = "standard"
    /\ Call(query)
    /\ UNCHANGED <<pages, query0, query, phase, raw_response, first, attempt,
                   throttledEver, response, returnStatus, page_info, entries,
                   result, faultCall, faultBody>>
    /\ UNCHANGED <<sessionVars, authVars, mutationVars, pairVars>>

\* a caller starts __repeat_get_request_for_all_unpaginated_records
StartUnpaginated ==
    /\ pc = "idle"
    /\ mode' = "unpaginated"
    /\ query' = unpaginated_defaults(query)
    /\ Call(query')
    /\ UNCHANGED <<pages, query0, phase, raw_response, first, attempt,
                   throttledEver, response, returnStatus, page_info, entries,
                   result, faultCall, faultBody>>
    /\ UNCHANGED <<sessionVars, authVars, mutationVars, pairVars>>

\* one iteration of the executor's `while True`: the request is sent and
\* the server answers with a 429, with the page asked for, or with a fault
SendRequest ==
    /\ pc = "request"
    /\ attempt' = build_request("get", query)
    /\ first' = IF throttles = 0 THEN build_request("get", query) ELSE first
    /\ \/ /\ throttles < MaxThrottle
          /\ raw_response' = ThrottleResponse
          /\ throttles' = throttles + 1
          /\ throttledEver' = TRUE
          /\ UNCHANGED <<faultCall, faultBody>>
       \/ /\ raw_response' = Response(200, PageBody(pages, query))
          /\ UNCHANGED <<throttles, throttledEver, faultCall, faultBody>>
       \/ /\ faultCall = 0
          /\ \E body \in FaultBodies :
                /\ raw_response' = Response(200, body)
                /\ faultBody' = body
          /\ faultCall' = calls
          /\ UNCHANGED <<throttles, throttledEver>>
    /\ pc' = "response"
    /\ UNCHANGED <<pages, mode, query0, query, phase, response, returnStatus,
                   page_info, entries, result, calls, requested>>
    /\ UNCHANGED <<sessionVars, authVars, mutationVars, pairVars>>

\* status 429: logging.warning(...); time.sleep(3); next iteration
SleepAndRetry ==
    /\ pc = "response"
    /\ throttled(raw_response)
    /\ pc' = "request"
    /\ UNCHANGED <<pages, mode, query0, query, phase, raw_response, first,
                   attempt, throttles, throttledEver, response, returnStatus,
                   page_info, entries, result, calls, requested, faultCall,
                   faultBody>>
    /\ UNCHANGED <<sessionVars, authVars, mutationVars, pairVars>>

\* the paginator takes the step `s` after an executor call returned
Apply(s) ==
    /\ query' = s.query
    /\ entries' = s.entries
    /\ page_info' = s.page_info
    /\ phase' = "next"
    /\ IF s.done
       THEN /\ pc' = "done"
            /\ result' = s.result
            /\ UNCHANGED <<calls, throttles, requested>>
       ELSE /\ Call(s.query)
            /\ UNCHANGED result

\* the executor leaves its loop and returns; the paginator runs up to its
\* next executor call or to its return
ExecutorReturns(step) ==
    /\ pc = "response"
    /\ ~throttled(raw_response)
    /\ response' = plenty_api_request_return(raw_response)
    /\ returnStatus' = raw_response.status_code
    /\ Apply(step)
    /\ UNCHANGED <<pages, mode, query0, raw_response, first, attempt,
                   throttledEver, faultCall, faultBody>>
    /\ UNCHANGED <<sessionVars, authVars, mutationVars, pairVars>>

StandardFirstResponse ==
    /\ mode = "standard" /\ phase = "first"
    /\ ExecutorReturns(
           standard_first(plenty_api_request_return(raw_response), query))

StandardNextResponse ==
    /\ mode = "standard" /\ phase = "next"
    /\ ExecutorReturns(
           standard_next(plenty_api_request_return(raw_response), query,
                         entries, page_info))

UnpaginatedFirstResponse ==
    /\ mode = "unpaginated" /\ phase = "first"
    /\ ExecutorReturns(
           unpaginated_first(plenty_api_request_return(raw_response), query))

UnpaginatedNextResponse ==
    /\ mode = "unpaginated" /\ phase = "next"
    /\ ExecutorReturns(
           unpaginated_next(plenty_api_request_return(raw_response), query,
                            entries, page_info))

Next ==
    \/ StartStandard
    \/ StartUnpaginated
    \/ SendRequest
    \/ SleepAndRetry
    \/ StandardFirstResponse
    \/ StandardNextResponse
    \/ UnpaginatedFirstResponse
    \/ UnpaginatedNextResponse

Spec == Init /\ [][Next]_vars

\* ------------------------------------- the executor under a fair server
\* the server answers 429 once more after the throttles counted so far;
\* `throttles` stays at MaxThrottle, which then reads "MaxThrottle or more"
ThrottledAgain ==
    /\ pc = "request"
    /\ throttles = MaxThrottle
    /\ attempt' = build_request("get", query)
    /\ raw_response' = ThrottleResponse
    /\ pc' = "response"
    /\ UNCHANGED <<pages, mode, query0, query, phase, first, throttles,
                   throttledEver, response, returnStatus, page_info, entries,
                   result, calls, requested, faultCall, faultBody>>
    /\ UNCHANGED <<sessionVars, authVars, mutationVars, pairVars>>

NextLive ==
    \/ StartStandard
    \/ StartUnpaginated
    \/ SendRequest
    \/ ThrottledAgain
    \/ SleepAndRetry
    \/ StandardFirstResponse
    \/ StandardNextResponse
    \/ UnpaginatedFirstResponse
    \/ UnpaginatedNextResponse

\* the client is one thread that runs on: time.sleep(3) ends, a request is
\* sent and answered, the code after the loop runs; the server answers
\* with a status other than 429 if it is asked again and again
Fairness ==
    /\ WF_vars(SleepAndRetry)
    /\ WF_vars(SendRequest \/ ThrottledAgain)
    /\ WF_vars(StandardFirstResponse \/ StandardNextResponse
                    \/ UnpaginatedFirstResponse \/ UnpaginatedNextResponse)
    /\ SF_vars(SendRequest /\ raw_response'.status_code # TooManyRequests)

\* the fetches whose executor calls are followed: the caller's plain query
\* against the servers of 1..MaxPages full pages
InitLive ==
    /\ Init
    /\ query0 = BaseQuery
    /\ \A i \in DOMAIN pages : pages[i] = DefaultItemsPerPage

SpecLive == InitLive /\ [][NextLive]_vars /\ Fairness


\* --------------------------------------------------- client construction
InitAuth ==
    /\ url = ""
    /\ creds = ""
    /\ data_format = ""
    /\ data_format_arg \in DataFormats
    /\ login_method \in LoginMethods
    /\ login_data \in LoginDataValues
    /\ environment \in Environments
    /\ loginAnswers \in LoginAnswers
    /\ apc = "new"
    /\ posts = 0
    /\ prompted = <<>>
    /\ login_response = NoResponse
    /\ lockedLogged = FALSE
    /\ logged_in = None
    /\ lastRequest = None
    /\ NoMutationCall
    /\ pages = <<0>>
    /\ query0 = BaseQuery
    /\ IdleFetch
    /\ NoFetchPair

\* __authenticate returns or raises, __init__ goes on from `if not
\* logged_in`
Finish(step) ==
    /\ creds' = IF step.next = "store" THEN step.token ELSE creds
    /\ logged_in' = authenticate_result(step)
    /\ apc' = construct(authenticate_result(step))

\* __init__ up to the call of __authenticate, and __authenticate up to the
\* answer to its first login POST and the test for a locked account
Construct ==
    /\ apc = "new"
    /\ url' = BaseUrl
    /\ data_format' = select_data_format(data_format_arg)
    /\ LET got == acquire_credentials(login_method, login_data, environment)
       IN  IF got.kind = "creds"
           THEN /\ creds' = ""
                /\ prompted' = got.prompts
                /\ posts' = 1
                /\ login_response' = loginAnswers[1]
                /\ lockedLogged' = (loginAnswers[1].status_code = 403)
                /\ apc' = "posted"
                /\ UNCHANGED logged_in
           ELSE /\ Finish(IF got.kind = "raised" THEN Raise(got.exc)
                          ELSE ReturnFalse)
                /\ UNCHANGED <<prompted, posts, login_response, lockedLogged>>
    /\ UNCHANGED <<login_method, login_data, data_format_arg, environment,
                   loginAnswers, lastRequest>>
    /\ UNCHANGED <<fetchVars, mutationVars, pairVars>>

\* __authenticate from the first login answer on: it stores the token,
\* fails, or prompts for new credentials and posts them
FirstLoginAnswered ==
    /\ apc = "posted"
    /\ LET step == authenticate_first(login_response, login_method, login_data)
       IN  IF step.next = "retry"
           THEN /\ prompted' = Append(prompted, "update_keyring_creds")
                /\ posts' = 2
                /\ login_response' = loginAnswers[2]
                /\ apc' = "reposted"
                /\ UNCHANGED <<creds, logged_in>>
           ELSE /\ Finish(step)
                /\ UNCHANGED <<prompted, posts, login_response>>
    /\ UNCHANGED <<url, data_format, login_method, login_data,
                   data_format_arg, environment, loginAnswers, lockedLogged,
                   lastRequest>>
    /\ UNCHANGED <<fetchVars, mutationVars, pairVars>>

\* __authenticate from the second login answer on
RetryAnswered ==
    /\ apc = "reposted"
    /\ Finish(authenticate_retry(login_response))
    /\ UNCHANGED <<url, data_format, login_method, login_data,
                   data_format_arg, environment, loginAnswers, posts,
                   prompted, login_response, lockedLogged, lastRequest>>
    /\ UNCHANGED <<fetchVars, mutationVars, pairVars>>

\* an operation of the constructed client hands a request to
\* __plenty_api_request, which sends it
ClientRequest ==
    /\ apc = "constructed"
    /\ \E method \in {"get", "post", "put"} :
          lastRequest' = build_request(method, BaseQuery)
    /\ UNCHANGED <<url, creds, data_format, login_method, login_data,
                   data_format_arg, environment, loginAnswers, apc, posts,
                   prompted, login_response, lockedLogged, logged_in>>
    /\ UNCHANGED <<fetchVars, mutationVars, pairVars>>

NextAuth ==
    \/ Construct
    \/ FirstLoginAnswered
    \/ RetryAnswered
    \/ ClientRequest

SpecAuth == InitAuth /\ [][NextAuth]_vars

\* ------------------------------------------------------ mutation methods
MaxBatch == 2

\* {'error': reason}
error_mapping(reason) == [kind |-> "dict", error |-> Str(reason)]

\* what a method call leaves behind: the value returned and the requests
\* handed to __plenty_api_request, in order
Outcome(value, requests) == [result |-> value, requests |-> requests]

\* self.__plenty_api_request(method=..., data=...)
send(method, data) == [method |-> method, data |-> data]

\* the payload objects a caller passes: with and without the fields the
\* route's template requires
SaneObject == [kind |-> "dict", name |-> "x"]
BrokenObject == [kind |-> "dict"]
\* utils.sanity_check_json(route_name=..., json=...)
sanity_check_json(json) == isinstance_dict(json) /\ "name" \in DOMAIN json

\* utils.get_language(lang=...)
get_language(lang) ==
    IF lang \in {"de", "en"} THEN lang ELSE "INVALID_LANGUAGE"

\* the server's answers to the requests of a mutation method
Created == [kind |-> "dict", id |-> 1]
MutationAnswers ==
    {Response(200, Created), Response(422, ErrorWithMessage),
     Response(401, ErrorReasonCode), Response(500, NoJson)}

\* the arguments callers pass
Ids == {0, 7}
Langs == {"", "de", "xx"}
Names == {"", "Farbe"}
Quantities == {-1, 0, 1}
Targets ==
    {<<>>} \cup {[k \in {name} |-> id] :
                    name \in {"marketplace", "shop"}, id \in {0, 4}}
JsonLists ==
    UNION {[1..n -> {SaneObject, BrokenObject}] : n \in 0..MaxBatch}
BatchArguments == {List(objects) : objects \in JsonLists} \cup {SaneObject}
AnswerLists == [1..MaxBatch -> MutationAnswers]

\* plenty_api_set_image_availability
plenty_api_set_image_availability(item_id, image_id, target, answer) ==
    IF item_id = 0 \/ image_id = 0 \/ DOMAIN target = {}
    THEN Outcome(error_mapping("missing_parameter"), <<>>)
    ELSE LET named == {e \in DOMAIN target :
                          /\ e \in {"marketplace", "mandant", "listing"}
                          /\ target[e] # 0}
         IN  IF named = {}
             THEN Outcome(error_mapping("invalid_target"), <<>>)
             ELSE LET target_name == CHOOSE e \in named : TRUE
                      data == [imageId |-> image_id, type |-> target_name,
                               value |-> target[target_name]]
                  IN  Outcome(plenty_api_request_return(answer),
                              <<send("post", data)>>)

\* the loop of the batch methods over the objects from position i on: an
\* object that fails the sanity check gets an error entry, every other one
\* is posted; an exception of the executor ends the method
RECURSIVE post_each(_, _, _, _, _)
post_each(objects, answers, i, results, requests) ==
    IF i > Len(objects) THEN Outcome(List(results), requests)
    ELSE IF ~sanity_check_json(objects[i])
    THEN post_each(objects, answers, i + 1,
                   Append(results, error_mapping("invalid_json")), requests)
    ELSE LET got == plenty_api_request_return(answers[Len(requests) + 1])
             sent == Append(requests, send("post", objects[i]))
         IN  IF got.kind = "raised" THEN Outcome(got, sent)
             ELSE post_each(objects, answers, i + 1, Append(results, got),
                            sent)

\* `if isinstance(json, dict): json = [json]`
as_list(json) == IF isinstance_dict(json) THEN <<json>> ELSE json.items

\* plenty_api_create_items
plenty_api_create_items(json, answers) ==
    post_each(as_list(json), answers, 1, <<>>, <<>>)

\* plenty_api_create_variations
plenty_api_create_variations(item_id, json, answers) ==
    IF item_id = 0
    THEN Outcome(List(<<error_mapping("missing_parameter")>>), <<>>)
    ELSE post_each(as_list(json), answers, 1, <<>>, <<>>)

\* plenty_api_create_attribute_values
plenty_api_create_attribute_values(attribute_id, json, answers) ==
    IF attribute_id = 0
    THEN Outcome(List(<<error_mapping("missing_parameter")>>), <<>>)
    ELSE post_each(as_list(json), answers, 1, <<>>, <<>>)

\* plenty_api_create_attribute_name
plenty_api_create_attribute_name(attribute_id, lang, name, answer) ==
    IF attribute_id = 0 \/ lang = "" \/ name = ""
    THEN Outcome(List(<<error_mapping("missing_parameter")>>), <<>>)
    ELSE IF get_language(lang) = "INVALID_LANGUAGE"
    THEN Outcome(error_mapping("invalid_language"), <<>>)
    ELSE Outcome(plenty_api_request_return(answer),
                 <<send("post", [attributeId |-> attribute_id, lang |-> lang,
                                 name |-> name])>>)

\* plenty_api_create_attribute_value_name
plenty_api_create_attribute_value_name(value_id, lang, name, answer) ==
    IF value_id = 0 \/ lang = "" \/ name = ""
    THEN Outcome(List(<<error_mapping("missing_parameter")>>), <<>>)
    ELSE IF get_language(lang) = "INVALID_LANGUAGE"
    THEN Outcome(error_mapping("invalid_language"), <<>>)
    ELSE Outcome(plenty_api_request_return(answer),
                 <<send("post", [valueId |-> value_id, lang |-> lang,
                                 name |-> name])>>)

\* plenty_api_create_transaction
plenty_api_create_transaction(order_item_id, json, answer) ==
    IF order_item_id = 0
    THEN Outcome(error_mapping("missing_parameter"), <<>>)
    ELSE IF ~sanity_check_json(json)
    THEN Outcome(error_mapping("invalid_json"), <<>>)
    ELSE Outcome(plenty_api_request_return(answer), <<send("post", json)>>)

\* plenty_api_create_property_selection_name
plenty_api_create_property_selection_name(property_id, selection_id, lang, name, answer) ==
    IF property_id = 0 \/ lang = "" \/ name = ""
    THEN Outcome(error_mapping("missing_parameter"), <<>>)
    ELSE IF get_language(lang) = "INVALID_LANGUAGE"
    THEN Outcome(error_mapping("invalid_language"), <<>>)
    ELSE Outcome(plenty_api_request_return(answer),
                 <<send("post", [propertyId |-> property_id,
                                 selectionId |-> selection_id, lang |-> lang,
                                 name |-> name])>>)

\* plenty_api_update_redistribution
plenty_api_update_redistribution(order_id, json, answer) ==
    IF order_id = 0
    THEN Outcome(error_mapping("missing_parameter"), <<>>)
    ELSE Outcome(plenty_api_request_return(answer), <<send("put", json)>>)

\* the payload of a stock booking
booking(quantity, warehouse_id, reason_id) ==
    [warehouseId |-> warehouse_id, quantity |-> quantity,
     reasonId |-> reason_id]

\* plenty_api_book_incoming_items
plenty_api_book_incoming_items(quantity, warehouse_id, answer) ==
    IF quantity <= 0
    THEN Outcome(error_mapping("invalid_quantity"), <<>>)
    ELSE Outcome(plenty_api_request_return(answer),
                 <<send("put", booking(quantity, warehouse_id, 181))>>)

\* plenty_api_book_outgoing_items
plenty_api_book_outgoing_items(quantity, warehouse_id, answer) ==
    IF quantity >= 0
    THEN Outcome(error_mapping("invalid_quantity"), <<>>)
    ELSE Outcome(plenty_api_request_return(answer),
                 <<send("put", booking(quantity, warehouse_id, 201))>>)

\* plenty_api_update_property_selection_name: the method ends after the
\* request, without a return statement
plenty_api_update_property_selection_name(name_id, name, answer) ==
    IF name_id = 0 \/ name = ""
    THEN Outcome(error_mapping("missing_parameter"), <<>>)
    ELSE LET got == plenty_api_request_return(answer)
         IN  Outcome(IF got.kind = "raised" THEN got ELSE None,
                     <<send("put", [name |-> name])>>)

\* __plenty_api_request called with `method`: the first pass of its loop
\* sends the request of a known method; for any other method nothing is
\* sent, raw_response is still the empty dict of line 305 and
\* raw_response.status_code fails
plenty_api_request(method, data, answer) ==
    IF lower(method) \notin {"get", "post", "put"}
    THEN Outcome(Raised("AttributeError"), <<>>)
    ELSE Outcome(plenty_api_request_return(answer),
                 <<send(lower(method), data)>>)

InitMutation ==
    /\ SessionEstablished
    /\ NoMutationCall
    /\ pages = <<0>>
    /\ query0 = BaseQuery
    /\ IdleFetch
    /\ NoFetchPair

\* a caller calls a mutation method, which runs to its return; the methods
\* keep no state from one call to the next, so a behaviour holds one call
Called(call, outcome) ==
    /\ mcall = None
    /\ mcall' = call
    /\ mresult' = outcome.result
    /\ mrequests' = outcome.requests
    /\ UNCHANGED <<fetchVars, sessionVars, authVars, orderVars,
                   pairVars>>

SetImageAvailability ==
    \E item_id \in Ids, image_id \in Ids, target \in Targets,
       answer \in MutationAnswers :
        Called([method |-> "set_image_availability", item_id |-> item_id,
                image_id |-> image_id, target |-> target],
               plenty_api_set_image_availability(item_id, image_id, target,
                                                 answer))

CreateItems ==
    \E json \in BatchArguments, answers \in AnswerLists :
        Called([method |-> "create_items", json |-> json,
                answers |-> answers],
               plenty_api_create_items(json, answers))

CreateVariations ==
    \E item_id \in Ids, json \in BatchArguments, answers \in AnswerLists :
        Called([method |-> "create_variations", item_id |-> item_id,
                json |-> json, answers |-> answers],
               plenty_api_create_variations(item_id, json, answers))

CreateAttributeValues ==
    \E attribute_id \in Ids, json \in BatchArguments, answers \in AnswerLists :
        Called([method |-> "create_attribute_values",
                attribute_id |-> attribute_id, json |-> json,
                answers |-> answers],
               plenty_api_create_attribute_values(attribute_id, json, answers))

CreateAttributeName ==
    \E attribute_id \in Ids, lang \in Langs, name \in Names,
       answer \in MutationAnswers :
        Called([method |-> "create_attribute_name",
                attribute_id |-> attribute_id, lang |-> lang, name |-> name],
               plenty_api_create_attribute_name(attribute_id, lang, name,
                                                answer))

CreateAttributeValueName ==
    \E value_id \in Ids, lang \in Langs, name \in Names,
       answer \in MutationAnswers :
        Called([method |-> "create_attribute_value_name",
                value_id |-> value_id, lang |-> lang, name |-> name],
               plenty_api_create_attribute_value_name(value_id, lang, name,
                                                      answer))

CreateTransaction ==
    \E order_item_id \in Ids, json \in {SaneObject, BrokenObject},
       answer \in MutationAnswers :
        Called([method |-> "create_transaction",
                order_item_id |-> order_item_id, json |-> json],
               plenty_api_create_transaction(order_item_id, json, answer))

CreatePropertySelectionName ==
    \E property_id \in Ids, selection_id \in Ids, lang \in Langs,
       name \in Names, answer \in MutationAnswers :
        Called([method |-> "create_property_selection_name",
                property_id |-> property_id, selection_id |-> selection_id,
                lang |-> lang, name |-> name],
               plenty_api_create_property_selection_name(
                   property_id, selection_id, lang, name, answer))

UpdateRedistribution ==
    \E order_id \in Ids, json \in {SaneObject, BrokenObject},
       answer \in MutationAnswers :
        Called([method |-> "update_redistribution", order_id |-> order_id,
                json |-> json],
               plenty_api_update_redistribution(order_id, json, answer))

BookIncomingItems ==
    \E quantity \in Quantities, warehouse_id \in Ids,
       answer \in MutationAnswers :
        Called([method |-> "book_incoming_items", quantity |-> quantity,
                warehouse_id |-> warehouse_id],
               plenty_api_book_incoming_items(quantity, warehouse_id, answer))

BookOutgoingItems ==
    \E quantity \in Quantities, warehouse_id \in Ids,
       answer \in MutationAnswers :
        Called([method |-> "book_outgoing_items", quantity |-> quantity,
                warehouse_id |-> warehouse_id],
               plenty_api_book_outgoing_items(quantity, warehouse_id, answer))

UpdatePropertySelectionName ==
    \E name_id \in Ids, name \in Names, answer \in MutationAnswers :
        Called([method |-> "update_property_selection_name",
                name_id |-> name_id, name |-> name],
               plenty_api_update_property_selection_name(name_id, name,
                                                         answer))

\* ------------------------------------- GET methods built on the paginators
\* the records the paginators hand to the methods
Order(id, types) ==
    [id |-> id, dates |-> [i \in 1..Len(types) |-> [typeId |-> types[i]]]]
OrderLists ==
    {<<>>, <<Order(1, <<"create">>), Order(2, <<"create", "finish">>)>>,
     <<Order(2, <<"finish">>), Order(1, <<>>), Order(3, <<"initiate">>)>>}
PropertyNames ==
    <<[propertyId |-> 1, lang |-> "de", name |-> "Farbe"],
      [propertyId |-> 1, lang |-> "en", name |-> "colour"]>>
Selections ==
    <<[propertyId |-> 1, id |-> 4,
       relation |-> [relationValues |->
                        <<[lang |-> "de", value |-> "rot"]>>]]>>

\* what a paginator may return to a method: null, an error mapping, the
\* exception of the executor, or a sequence of records
Fetches(records) ==
    {None, ErrorWithMessage, Raised("TypeError")}
        \cup {List(r) : r \in records}

\* utils.transform_data_type(data=..., data_format='json'): structured
\* records are handed on unchanged
transform_data_type(data) == data

\* isinstance(orders, dict) and 'error' in orders.keys(): log, return None
error_to_none(data, rest) ==
    IF data.kind = "raised" THEN data
    ELSE IF is_error_mapping(data) THEN None
    ELSE rest

\* `for x in data` over what the paginator returned: None is not iterable,
\* a mapping yields its keys, which are strings and cannot be indexed by the
\* name of a field
iterate(data) ==
    IF data.kind = "raised" THEN data
    ELSE IF data.kind = "none" THEN Raised("TypeError")
    ELSE IF isinstance_dict(data)
    THEN IF truthy(data) THEN Raised("TypeError") ELSE List(<<>>)
    ELSE data

\* the loop body applied to what the loop iterates over, or the loop's
\* exception
looped(iterated, built) == IF iterated.kind = "raised" THEN iterated ELSE built

\* a test that looks at the first date of the order only
finished_by_first_date(o) ==
    Len(o.dates) > 0 /\ o.dates[1].typeId = "finish"

\* the order has a date of the type IMPORT_ORDER_DATE_TYPES['finish']
finished(o) == \E i \in 1..Len(o.dates) : o.dates[i].typeId = "finish"

\* the loop of __plenty_api_get_pending_non_sales_orders
pending_list(orders) == List(SelectSeq(orders, LAMBDA o : ~finished(o)))

\* __plenty_api_get_pending_non_sales_orders, from the paginator's return on
plenty_api_get_pending_non_sales_orders(orders) ==
    error_to_none(orders,
        LET each == iterate(orders)
        IN  looped(each, transform_data_type(pending_list(each.items))))

\* plenty_api_get_pending_reorder
plenty_api_get_pending_reorder(orders) ==
    plenty_api_get_pending_non_sales_orders(orders)

\* `order['shippingPackages'] = packages` for every pending order
with_packages(orders) ==
    List([i \in 1..Len(orders) |->
            [id |-> orders[i].id, dates |-> orders[i].dates,
             shippingPackages |-> "packages"]])

\* plenty_api_get_pending_redistribution
plenty_api_get_pending_redistribution(orders, shipping_packages) ==
    LET pending == plenty_api_get_pending_non_sales_orders(orders)
    IN  IF pending.kind = "raised" \/ shipping_packages = "" THEN pending
        ELSE looped(iterate(pending), with_packages(iterate(pending).items))

\* plenty_api_get_orders_by_date (valid date range), plenty_api_get_attributes
\* (variation_map False) and plenty_api_get_bi_raw_files, from the
\* paginator's return on
return_unless_error(data) == error_to_none(data, transform_data_type(data))

\* plenty_api_get_price_configuration (minimal False)
plenty_api_get_price_configuration(prices) ==
    error_to_none(prices,
        IF ~truthy(prices) THEN None ELSE transform_data_type(prices))

\* the mapping plenty_api_get_property_names builds
names_by_property(props) ==
    [kind |-> "dict",
     names |-> {<<props[i].propertyId, props[i].lang, props[i].name>> :
                    i \in 1..Len(props)}]

\* plenty_api_get_property_names
plenty_api_get_property_names(data) ==
    looped(iterate(data), names_by_property(iterate(data).items))

\* the mapping plenty_api_get_property_selections builds
selection_map(selections) ==
    [kind |-> "dict",
     names |-> {<<selections[i].propertyId, selections[i].id,
                  selections[i].relation.relationValues[j].lang,
                  selections[i].relation.relationValues[j].value>> :
                    i \in 1..Len(selections), j \in 1..1}]

\* plenty_api_get_property_selections
plenty_api_get_property_selections(data) ==
    looped(iterate(data), selection_map(iterate(data).items))

\* a GET method is called; its paginator returns `data`, the requests of
\* the fetch are those of the paginator
Fetched(call, value) ==
    /\ mcall = None
    /\ mcall' = call
    /\ mresult' = value
    /\ mrequests' = <<>>
    /\ UNCHANGED <<fetchVars, sessionVars, authVars, orderVars,
                   pairVars>>

GetPendingRedistribution ==
    \E data \in Fetches(OrderLists), shipping_packages \in {"", "minimal"} :
        Fetched([method |-> "get_pending_redistribution", data |-> data,
                 shipping_packages |-> shipping_packages],
                plenty_api_get_pending_redistribution(data, shipping_packages))

GetPendingReorder ==
    \E data \in Fetches(OrderLists) :
        Fetched([method |-> "get_pending_reorder", data |-> data],
                plenty_api_get_pending_reorder(data))

GetOrdersByDate ==
    \E data \in Fetches(OrderLists) :
        Fetched([method |-> "get_orders_by_date", data |-> data],
                return_unless_error(data))

GetAttributes ==
    \E data \in Fetches({<<>>, PropertyNames}) :
        Fetched([method |-> "get_attributes", data |-> data],
                return_unless_error(data))

GetPriceConfiguration ==
    \E data \in Fetches({<<>>, PropertyNames}) :
        Fetched([method |-> "get_price_configuration", data |-> data],
                plenty_api_get_price_configuration(data))

GetPropertyNames ==
    \E data \in Fetches({<<>>, PropertyNames}) :
        Fetched([method |-> "get_property_names", data |-> data],
                plenty_api_get_property_names(data))

GetPropertySelections ==
    \E data \in Fetches({<<>>, Selections}) :
        Fetched([method |-> "get_property_selections", data |-> data],
                plenty_api_get_property_selections(data))

GetBiRawFiles ==
    \E data \in Fetches({<<>>, PropertyNames}) :
        Fetched([method |-> "get_bi_raw_files", data |-> data],
                return_unless_error(data))

\* a method of the client calls the executor
ExecutorCall ==
    \E method \in {"get", "post", "put", "PUT", "delete"},
       answer \in MutationAnswers :
        Called([method |-> "__plenty_api_request", http_method |-> method],
               plenty_api_request(method, SaneObject, answer))

NextMutation ==
    \/ SetImageAvailability
    \/ CreateItems
    \/ CreateVariations
    \/ CreateAttributeValues
    \/ CreateAttributeName
    \/ CreateAttributeValueName
    \/ CreateTransaction
    \/ CreatePropertySelectionName
    \/ UpdateRedistribution
    \/ BookIncomingItems
    \/ BookOutgoingItems
    \/ UpdatePropertySelectionName
    \/ ExecutorCall
    \/ GetPendingRedistribution
    \/ GetPendingReorder
    \/ GetOrdersByDate
    \/ GetAttributes
    \/ GetPriceConfiguration
    \/ GetPropertyNames
    \/ GetPropertySelections
    \/ GetBiRawFiles

SpecMutation == InitMutation /\ [][NextMutation]_vars

\* ------------------------------ create_redistribution and create_reorder
\* self.__plenty_api_request(method=..., domain=..., path=..., data=...)
send_to(method, domain, path, data) ==
    [method |-> method, domain |-> domain, path |-> path, data |-> data]

\* the templates callers pass: complete ones with 1..MaxBatch variations,
\* one without receiver and one without variations
Variation(i) == [variation_id |-> i, quantity |-> 5]
Template(n) ==
    [kind |-> "dict", sender |-> 1, receiver |-> 2,
     variations |-> [i \in 1..n |-> Variation(i)]]
TemplateWithoutReceiver ==
    [kind |-> "dict", sender |-> 1, variations |-> <<Variation(1)>>]
TemplateWithoutVariations == [kind |-> "dict", sender |-> 1, receiver |-> 2]
Templates ==
    {Template(n) : n \in 1..MaxBatch}
        \cup {TemplateWithoutReceiver, TemplateWithoutVariations}

\* utils.validate_redistribution_template(template=...)
validate_redistribution_template(template) ==
    {"sender", "receiver", "variations"} \subseteq DOMAIN template

\* utils.build_import_json(template=..., sender_type=...): the order JSON of
\* a complete template; for an incomplete one it builds what it can or
\* raises on the missing key
build_import_json(template, sender_type) ==
    LET json == [kind |-> "dict", sender_type |-> sender_type,
                 template |-> template]
    IN  IF validate_redistribution_template(template) THEN {json}
        ELSE {json, Raised("KeyError")}

\* the server's answer to an accepted order: an id and one order item per
\* variation
OrderCreated(template) ==
    [kind |-> "dict", id |-> 9,
     orderItems |-> IF "variations" \in DOMAIN template
                    THEN [i \in 1..Len(template.variations) |-> [id |-> i]]
                    ELSE <<>>]
OrderAnswers(template) ==
    {Response(200, OrderCreated(template)), Response(422, ErrorWithMessage),
     Response(401, ErrorReasonCode), Response(500, NoJson)}

\* a transaction of one order item; `name` stands for the fields the
\* transaction template requires
Transaction(direction, item) ==
    [kind |-> "dict", name |-> direction, orderItemId |-> item.id]
Transactions(direction, items) ==
    [i \in 1..Len(items) |-> Transaction(direction, items[i])]

\* utils.build_redistribution_transactions(order=..., variations=...) and
\* utils.build_reorder_transaction(order=..., variations=...): one
\* transaction per order item and direction; for a response that is no
\* order, nothing to do or a failure on the missing order items
build_transactions(resp, variations) ==
    IF isinstance_dict(resp) /\ "orderItems" \in DOMAIN resp
    THEN {[kind |-> "built",
           outgoing |-> Transactions("outgoing", resp.orderItems),
           incoming |-> Transactions("incoming", resp.orderItems)]}
    ELSE {[kind |-> "built", outgoing |-> <<>>, incoming |-> <<>>],
          Raised(IF isinstance_dict(resp) THEN "KeyError"
                 ELSE "TypeError")}

\* response['id']
order_id(resp) ==
    IF ~isinstance_dict(resp) THEN Raised("TypeError")
    ELSE IF "id" \notin DOMAIN resp THEN Raised("KeyError")
    ELSE [kind |-> "int", value |-> resp.id]

\* the method runs `if not utils.validate_redistribution_template(...)`
validated(method) == method = "create_redistribution"

InitOrder ==
    /\ SessionEstablished
    /\ pages = <<0>>
    /\ query0 = BaseQuery
    /\ IdleFetch
    /\ NoFetchPair
    /\ \E method \in {"create_redistribution", "create_reorder"},
          template \in Templates, book_out \in BOOLEAN :
            mcall = [method |-> method, template |-> template,
                     book_out |-> book_out /\ method = "create_redistribution"]
    /\ mresult = None
    /\ mrequests = <<>>
    /\ opc = "start"
    /\ order = None
    /\ outgoing = <<>>
    /\ incoming = <<>>
    /\ todo = <<>>

\* the method ends: it returns or an exception leaves it
Ends(value) ==
    /\ opc' = "returned"
    /\ mresult' = value
    /\ todo' = <<>>

\* one call of the executor made by the method, answered by the server
Requests(request) == mrequests' = Append(mrequests, request)

\* the template test, the order JSON, the order POST and the transactions
\* built from its response
CreateOrder ==
    /\ opc = "start"
    /\ IF validated(mcall.method)
          /\ ~validate_redistribution_template(mcall.template)
       THEN /\ Ends(error_mapping("invalid_template"))
            /\ UNCHANGED <<mrequests, order, outgoing, incoming>>
       ELSE \E json \in build_import_json(
                            mcall.template,
                            IF mcall.method = "create_redistribution"
                            THEN "warehouse" ELSE "contact") :
              IF json.kind = "raised"
              THEN /\ Ends(json)
                   /\ UNCHANGED <<mrequests, order, outgoing, incoming>>
              ELSE /\ Requests(send_to("post",
                          IF mcall.method = "create_redistribution"
                          THEN "redistribution" ELSE "reorder", <<>>, json))
                   /\ \E answer \in OrderAnswers(mcall.template) :
                        LET got == plenty_api_request_return(answer)
                        IN  /\ order' = got
                            /\ IF got.kind = "raised"
                               THEN /\ Ends(got)
                                    /\ UNCHANGED <<outgoing, incoming>>
                               ELSE IF "variations" \notin DOMAIN mcall.template
                               THEN /\ Ends(Raised("KeyError"))
                                    /\ UNCHANGED <<outgoing, incoming>>
                               ELSE \E built \in build_transactions(
                                            got, mcall.template.variations) :
                                      IF built.kind = "raised"
                                      THEN /\ Ends(built)
                                           /\ UNCHANGED <<outgoing, incoming>>
                                      ELSE /\ outgoing' =
                                                IF mcall.method = "create_reorder"
                                                THEN <<>> ELSE built.outgoing
                                           /\ incoming' = built.incoming
                                           /\ todo' = outgoing'
                                           /\ opc' = "outgoing"
                                           /\ UNCHANGED mresult
    /\ UNCHANGED mcall
    /\ UNCHANGED <<fetchVars, sessionVars, authVars, pairVars>>

\* one iteration of `for transaction in outgoing`: the transaction is
\* created and its response is searched for an error
CreateOutgoingTransaction ==
    /\ opc = "outgoing"
    /\ todo # <<>>
    /\ \E answer \in MutationAnswers :
         LET made == plenty_api_create_transaction(
                         Head(todo).orderItemId, Head(todo), answer)
             got == made.result
         IN  /\ mrequests' = mrequests \o
                    [i \in 1..Len(made.requests) |->
                        send_to("post", "order",
                                <<"items", Head(todo).orderItemId,
                                  "transactions">>, Head(todo))]
             /\ IF got.kind = "raised" THEN Ends(got)
                ELSE IF ~isinstance_dict(got)
                THEN Ends(Raised("AttributeError"))
                ELSE /\ todo' = Tail(todo)
                     /\ UNCHANGED <<opc, mresult>>
    /\ UNCHANGED <<mcall, order, outgoing, incoming>>
    /\ UNCHANGED <<fetchVars, sessionVars, authVars, pairVars>>

\* after the outgoing loop, `if book_out`: the order is initiated and the
\* outgoing transactions are booked; then the incoming loop starts
BookOutgoing ==
    /\ opc = "outgoing"
    /\ todo = <<>>
    /\ IF ~mcall.book_out
       THEN /\ opc' = "incoming"
            /\ todo' = incoming
            /\ UNCHANGED <<mrequests, mresult>>
       ELSE LET id == order_id(order)
            IN  IF id.kind = "raised"
                THEN /\ Ends(id)
                     /\ UNCHANGED mrequests
                ELSE \E updated \in MutationAnswers, booked \in MutationAnswers :
                       LET update_request ==
                               send_to("put", "redistribution", <<id.value>>,
                                       [date_type |-> "initiate"])
                           booking_request ==
                               send_to("post", "order",
                                       <<id.value, "booking">>, <<>>)
                       IN  IF plenty_api_request_return(updated).kind = "raised"
                           THEN /\ Requests(update_request)
                                /\ Ends(plenty_api_request_return(updated))
                           ELSE /\ mrequests' = mrequests \o
                                        <<update_request, booking_request>>
                                /\ IF plenty_api_request_return(booked).kind
                                          = "raised"
                                   THEN Ends(plenty_api_request_return(booked))
                                   ELSE /\ opc' = "incoming"
                                        /\ todo' = incoming
                                        /\ UNCHANGED mresult
    /\ UNCHANGED <<mcall, order, outgoing, incoming>>
    /\ UNCHANGED <<fetchVars, sessionVars, authVars, pairVars>>

\* one iteration of `for transaction in incoming`: the transaction is
\* created, its response is dropped
CreateIncomingTransaction ==
    /\ opc = "incoming"
    /\ todo # <<>>
    /\ \E answer \in MutationAnswers :
         LET made == plenty_api_create_transaction(
                         Head(todo).orderItemId, Head(todo), answer)
         IN  /\ mrequests' = mrequests \o
                    [i \in 1..Len(made.requests) |->
                        send_to("post", "order",
                                <<"items", Head(todo).orderItemId,
                                  "transactions">>, Head(todo))]
             /\ IF made.result.kind = "raised" THEN Ends(made.result)
                ELSE /\ todo' = Tail(todo)
                     /\ UNCHANGED <<opc, mresult>>
    /\ UNCHANGED <<mcall, order, outgoing, incoming>>
    /\ UNCHANGED <<fetchVars, sessionVars, authVars, pairVars>>

\* after the incoming loop: with book_out the incoming transactions are
\* booked and the order is finished; `return response`
ReturnOrder ==
    /\ opc = "incoming"
    /\ todo = <<>>
    /\ IF ~mcall.book_out \/ incoming = <<>>
       THEN /\ Ends(order)
            /\ UNCHANGED mrequests
       ELSE LET id == order_id(order)
            IN  \E booked \in MutationAnswers, updated \in MutationAnswers :
                  LET booking_request ==
                          send_to("post", "order", <<id.value, "booking">>,
                                  <<>>)
                      update_request ==
                          send_to("put", "redistribution", <<id.value>>,
                                  [date_type |-> "finish"])
                  IN  IF plenty_api_request_return(booked).kind = "raised"
                      THEN /\ Requests(booking_request)
                           /\ Ends(plenty_api_request_return(booked))
                      ELSE /\ mrequests' = mrequests \o
                                   <<booking_request, update_request>>
                           /\ Ends(IF plenty_api_request_return(updated).kind
                                         = "raised"
                                   THEN plenty_api_request_return(updated)
                                   ELSE order)
    /\ UNCHANGED <<mcall, order, outgoing, incoming>>
    /\ UNCHANGED <<fetchVars, sessionVars, authVars, pairVars>>

NextOrder ==
    \/ CreateOrder
    \/ CreateOutgoingTransaction
    \/ BookOutgoing
    \/ CreateIncomingTransaction
    \/ ReturnOrder

SpecOrder == InitOrder /\ [][NextOrder]_vars

\* ------------------------------------------- two fetches, steps interleaved
\* the two paginator calls and the clients they may run on
Fetchers == {1, 2}
Session(token) == [url |-> BaseUrl, creds |-> token, data_format |-> "json"]

\* the local variables of a paginator call that has not started: the
\* caller's own query mapping, the paginator it calls, nothing fetched
Locals(paginator, q) ==
    [mode |-> paginator, query0 |-> q, query |-> q, pc |-> "idle",
     phase |-> "first", throttles |-> 0, faulted |-> FALSE,
     raw_response |-> NoResponse, attempt |-> None,
     page_info |-> NoPageInfo, entries |-> <<>>, result |-> None,
     calls |-> 0, answers |-> <<>>]

\* the queries the two callers pass: each its own mapping, with or without
\* a page
PairQueries == {BaseQuery, update(BaseQuery, "page", SuppliedPage)}

\* the server both fetches ask: two full pages
PairServer == <<DefaultItemsPerPage, DefaultItemsPerPage>>

\* the faults a request of the two fetches may meet: a body that is no
\* JSON, an error mapping, an error mapping on which the executor raises
PairFaults == {NoJson, ErrorWithMessage, ErrorReasonCode}

\* an accumulator kept in one place for both calls
entries_shared(i) == fetches[1].entries

\* `entries` is a local variable of the running call (373, 396; 517, 536)
entries_of(i) == fetches[i].entries

InitPair ==
    /\ SessionEstablished
    /\ NoMutationCall
    /\ pages = PairServer
    /\ query0 = BaseQuery
    /\ IdleFetch
    /\ fetches \in {<<Locals(m1, BaseQuery), Locals(m2, q2)>> :
                        <<m1, m2>> \in {"standard", "unpaginated"}
                                        \X {"standard", "unpaginated"},
                        q2 \in PairQueries}
    /\ clients = <<Session("Bearer t1"), Session("Bearer t2")>>
    /\ owner \in {<<1, 1>>, <<1, 2>>}
    /\ overlapped = FALSE

\* fetch i takes a step that leaves its local variables as `f`
Stepped(i, f) ==
    /\ fetches' = [fetches EXCEPT ![i] = f]
    /\ overlapped' =
          (overlapped \/ \A j \in Fetchers :
                            fetches'[j].pc \in {"request", "response"})
    /\ UNCHANGED <<clients, owner>>
    /\ UNCHANGED <<fetchVars, sessionVars, authVars, mutationVars>>

\* the caller of fetch i calls its paginator, which reaches its first call
\* of the executor
StartFetch(i) ==
    /\ fetches[i].pc = "idle"
    /\ Stepped(i, [fetches[i] EXCEPT
                     !.query = IF fetches[i].mode = "unpaginated"
                               THEN unpaginated_defaults(@) ELSE @,
                     !.pc = "request",
                     !.calls = 1])

\* the executor of fetch i sends its request with the session of its
\* client; the server answers 429, the page asked for, or a fault
SendFetch(i) ==
    /\ fetches[i].pc = "request"
    /\ LET sent == [fetches[i] EXCEPT
                      !.pc = "response",
                      !.attempt =
                          [method |-> "get", query |-> fetches[i].query,
                           url |-> clients[owner[i]].url,
                           headers |-> [Authorization |->
                                           clients[owner[i]].creds]]]
       IN  \/ /\ fetches[i].throttles < MaxThrottle
              /\ Stepped(i, [sent EXCEPT !.raw_response = ThrottleResponse,
                                         !.throttles = @ + 1])
           \/ Stepped(i, [sent EXCEPT !.raw_response =
                             Response(200, PageBody(pages, fetches[i].query))])
           \/ /\ ~fetches[i].faulted
              /\ \E body \in PairFaults :
                    Stepped(i, [sent EXCEPT
                                  !.raw_response = Response(200, body),
                                  !.faulted = TRUE])

\* status 429 for fetch i: sleep, then the next attempt
SleepFetch(i) ==
    /\ fetches[i].pc = "response"
    /\ throttled(fetches[i].raw_response)
    /\ Stepped(i, [fetches[i] EXCEPT !.pc = "request"])

\* the paginator step of fetch i on the value its executor returned
step_of(i, got) ==
    LET f == fetches[i]
    IN  IF f.mode = "standard"
        THEN IF f.phase = "first" THEN standard_first(got, f.query)
             ELSE standard_next(got, f.query, entries_of(i), f.page_info)
        ELSE IF f.phase = "first" THEN unpaginated_first(got, f.query)
             ELSE unpaginated_next(got, f.query, entries_of(i), f.page_info)

\* the executor of fetch i returns; its paginator runs up to its next
\* executor call or to its return
ReturnFetch(i) ==
    /\ fetches[i].pc = "response"
    /\ ~throttled(fetches[i].raw_response)
    /\ LET got == plenty_api_request_return(fetches[i].raw_response)
           s == step_of(i, got)
       IN  Stepped(i, [fetches[i] EXCEPT
                         !.answers = Append(@, got),
                         !.query = s.query,
                         !.entries = s.entries,
                         !.page_info = s.page_info,
                         !.phase = "next",
                         !.pc = IF s.done THEN "done" ELSE "request",
                         !.result = IF s.done THEN s.result ELSE @,
                         !.calls = IF s.done THEN @ ELSE @ + 1,
                         !.throttles = IF s.done THEN @ ELSE 0])

NextPair ==
    \/ \E i \in Fetchers : StartFetch(i)
    \/ \E i \in Fetchers : SendFetch(i)
    \/ \E i \in Fetchers : SleepFetch(i)
    \/ \E i \in Fetchers : ReturnFetch(i)

SpecPair == InitPair /\ [][NextPair]_vars

\* ------------------------------------------------------------------ claims
\* the number of records of page p of the server (none beyond its last page)
ServedSize(sizes, p) == IF p \in 1..Len(sizes) THEN sizes[p] ELSE 0

\* the records of pages from..to of the server, in page order
RECURSIVE ConcatPages(_, _, _)
ConcatPages(sizes, from, to) ==
    IF from > to THEN <<>>
    ELSE PageOfSize(from, sizes[from]) \o ConcatPages(sizes, from + 1, to)

\* the fetch starts at the first page
StartsAtFirstPage == RequestedPage(query0) = 1

\* C1: a standard fetch that starts at page 1 of a server answering every
\* request with the page asked for returns the records of pages
\* 1..last_page concatenated in page order, nothing dropped or deduplicated
C1_StandardConcatenation ==
    (pc = "done" /\ mode = "standard" /\ faultCall = 0 /\ StartsAtFirstPage)
        => result = List(ConcatPages(pages, 1, Len(pages)))

\* C1 witness: three non-empty pages fetched, with throttling on the way
C1_Witness ==
    /\ pc = "done" /\ mode = "standard" /\ faultCall = 0 /\ StartsAtFirstPage
    /\ Len(pages) = 3 /\ pages[1] = 1 /\ pages[2] = 2 /\ pages[3] = 1
    /\ throttledEver
    /\ result.kind = "list" /\ Len(result.items) = 4

\* C2 as stated: when a page after the first comes back as a mapping with
\* an `error` key, the standard paginator returns exactly that mapping and
\* no sequence of the records gathered before
C2_ErrorMappingReturned ==
    (pc = "done" /\ mode = "standard" /\ faultCall >= 2
        /\ is_error_mapping(faultBody))
        => result = faultBody

\* the latest executor call returned a failure signal: None or an error
\* mapping
ExecutorFailed == response = None \/ is_error_mapping(response)

\* C3: in a standard fetch a further page is requested only after an
\* executor call that returned a page; when the executor returns None or an
\* error mapping the paginator returns that very value, no request follows
\* a failed one, and a sequence is returned only after a call that succeeded
C3_FailureStopsLoop ==
    mode = "standard" =>
        /\ (pc \in {"request", "response"} /\ calls >= 2)
               => (~ExecutorFailed /\ isinstance_dict(response))
        /\ (pc = "done" /\ ExecutorFailed) => result = response
        /\ (pc = "done" /\ result.kind = "list")
               => (~ExecutorFailed /\ (faultCall # 0 => result = faultBody))
        /\ faultCall # 0 => calls = faultCall

\* C3 witness: the third page request returned None after two pages were
\* gathered, and the fetch returned None
C3_Witness ==
    /\ pc = "done" /\ mode = "standard" /\ faultCall = 3
    /\ response = None /\ result = None /\ Len(entries) >= 2

\* C4 as stated: a paginator returns None only when a request produced a
\* body that is no JSON, and a first response that decodes to an empty list
\* gives an empty sequence, not None
C4_NullOnlyWithoutBody ==
    /\ (pc = "done" /\ result = None) => (faultCall # 0 /\ faultBody = NoJson)
    /\ (pc = "done" /\ faultCall = 1 /\ faultBody = List(<<>>))
           => result = List(<<>>)

\* the sum of the sizes of pages from..to
RECURSIVE SumSizes(_, _, _)
SumSizes(sizes, from, to) ==
    IF from > to THEN 0 ELSE sizes[from] + SumSizes(sizes, from + 1, to)

\* a probing fetch that started at page 1 and was answered with pages only
ProbeDone ==
    pc = "done" /\ mode = "unpaginated" /\ faultCall = 0 /\ StartsAtFirstPage

\* C5: probing paginator, n >= 2 pages, the first n-1 exactly full and the
\* last one short: exactly n requests are made and the result holds as many
\* records as the pages together
C5_FullPagesThenShort ==
    (/\ ProbeDone
     /\ Len(pages) >= 2
     /\ \A i \in 1..(Len(pages) - 1) : pages[i] = query["itemsPerPage"]
     /\ pages[Len(pages)] < query["itemsPerPage"])
        => /\ calls = Len(pages)
           /\ result.kind = "list"
           /\ Len(result.items) = SumSizes(pages, 1, Len(pages))

\* C5 witness: the default page size of 100, two full pages and a short one
C5_Witness ==
    /\ ProbeDone
    /\ "itemsPerPage" \notin DOMAIN query0
    /\ Len(pages) = 3 /\ pages[1] = 100 /\ pages[2] = 100 /\ pages[3] = 2
    /\ calls = 3 /\ Len(result.items) = 202

\* C6: probing paginator, k >= 1 exactly full pages and nothing after them
\* (the server has no further page, or an empty one): k+1 requests are made,
\* one more than there are full pages, and the result holds k*itemsPerPage
\* records
C6_FullPagesThenEmpty ==
    \A k \in 1..Len(pages) :
        (/\ ProbeDone
         /\ \A i \in 1..k : pages[i] = query["itemsPerPage"]
         /\ \A i \in (k + 1)..Len(pages) : i = k + 1 /\ pages[i] = 0)
            => /\ calls = k + 1
               /\ result.kind = "list"
               /\ Len(result.items) = k * query["itemsPerPage"]

\* C6 witness: one page of 100 records, then an empty page: 2 requests
C6_Witness ==
    /\ ProbeDone
    /\ pages = <<100>> /\ query["itemsPerPage"] = 100
    /\ calls = 2 /\ Len(result.items) = 100

\* C7 as stated: probing paginator, the first page fetched is short: one
\* request is made, no second page is requested and the first page's
\* records are returned
C7_ShortFirstPageOneRequest ==
    (/\ pc = "done" /\ mode = "unpaginated" /\ faultCall = 0
     /\ ServedSize(pages, requested[1]) < query["itemsPerPage"])
        => /\ calls = 1
           /\ result = List(PageOfSize(requested[1],
                                       ServedSize(pages, requested[1])))

\* C8: probing paginator: from the first request on, itemsPerPage is the
\* caller's value or 100 when the caller gave none, the first page asked
\* for is the caller's page or 1 when the caller gave none, and with a
\* caller-supplied itemsPerPage the loop stops on the first page fetched in
\* the loop that has fewer records than that value
C8_UnpaginatedDefaults ==
    mode = "unpaginated" =>
        /\ query["itemsPerPage"] =
               IF "itemsPerPage" \in DOMAIN query0
               THEN query0["itemsPerPage"] ELSE 100
        /\ requested[1] = IF "page" \in DOMAIN query0 THEN query0["page"] ELSE 1
        /\ (calls = 1 /\ pc = "response") =>
               /\ attempt.query["itemsPerPage"] = query["itemsPerPage"]
               /\ attempt.query["page"] = requested[1]
        /\ (pc = "done" /\ faultCall = 0 /\ "itemsPerPage" \in DOMAIN query0) =>
               /\ ServedSize(pages, requested[calls]) < query0["itemsPerPage"]
               /\ \A c \in 2..(calls - 1) :
                      ServedSize(pages, requested[c]) >= query0["itemsPerPage"]

\* C8 witness: the caller supplied itemsPerPage 2 and page 2; pages of 2
\* records kept the loop going and it stopped on a shorter one
C8_Witness ==
    /\ pc = "done" /\ mode = "unpaginated" /\ faultCall = 0
    /\ "itemsPerPage" \in DOMAIN query0 /\ "page" \in DOMAIN query0
    /\ query0["itemsPerPage"] < 100
    /\ requested[1] = query0["page"]
    /\ calls >= 3

\* the paginator step for an executor result, by paginator and phase
Step(m, ph, resp, q, e, info) ==
    IF m = "standard"
    THEN IF ph = "first" THEN standard_first(resp, q)
         ELSE standard_next(resp, q, e, info)
    ELSE IF ph = "first" THEN unpaginated_first(resp, q)
         ELSE unpaginated_next(resp, q, e, info)

\* the body the server sends for call number `c` with query `q` when it
\* answers at once: the fault it chose for that call, else the page
ImmediateBody(c, q) == IF c = faultCall THEN faultBody ELSE PageBody(pages, q)

\* the result of the paginator when every request is answered at once,
\* without any 429, with the same pages and the same fault
RECURSIVE UnthrottledRun(_, _, _, _, _, _)
UnthrottledRun(m, ph, q, e, info, c) ==
    LET s == Step(m, ph,
                  plenty_api_request_return(Response(200, ImmediateBody(c, q))),
                  q, e, info)
    IN  IF s.done THEN s.result
        ELSE UnthrottledRun(m, "next", s.query, s.entries, s.page_info, c + 1)

\* the query of the first request of the fetch
FirstQuery ==
    IF mode = "unpaginated" THEN unpaginated_defaults(query0) ELSE query0

\* C9: whatever number of 429 answers precede the answer to a request, the
\* executor returns what it returns for that answer given at once, and the
\* paginator's final result is the result of the same fetch without any
\* throttling
C9_ThrottlingInvisible ==
    pc = "done" =>
        /\ returnStatus # 429
        /\ response =
               plenty_api_request_return(
                   Response(200, ImmediateBody(calls, attempt.query)))
        /\ result = UnthrottledRun(mode, "first", FirstQuery, <<>>,
                                   NoPageInfo, 1)

\* C9 witness: a fetch of several pages ended with a sequence after the
\* last request was throttled more than once
C9_Witness ==
    /\ pc = "done" /\ throttles >= 2 /\ calls >= 2
    /\ result.kind = "list" /\ Len(result.items) >= 2

\* C10: the executor never returns while the latest response is a 429:
\* after a 429 the only step is another attempt of the same call, however
\* many 429 answers came before, and every attempt of a call sends the same
\* method and query as the first one
C10_NeverDropsThrottled ==
    /\ [](/\ returnStatus # 429
          /\ (pc = "response" => attempt = first)
          /\ (pc = "response" /\ throttles > 0 /\ ~(faultCall = calls)
                 => raw_response.status_code = 429
                    \/ raw_response.body = PageBody(pages, first.query)))
    /\ [][(pc = "response" /\ raw_response.status_code = 429)
              => /\ pc' = "request"
                 /\ calls' = calls
                 /\ query' = query
                 /\ result' = result
                 /\ response' = response]_vars

\* C10 witness: a call was answered after two 429 answers, by a third
\* attempt that sent the request of the first
C10_Witness ==
    /\ pc = "response" /\ throttles >= 2
    /\ raw_response.status_code = 200
    /\ attempt = first /\ attempt.method = "get"

\* --------------------------------------------------- claims: construction
\* __init__ is over: the client is constructed or the constructor raised
ConstructionOver == apc \in {"constructed", "failed"}

\* the first login POST is answered with `invalid_credentials`, the second
\* with a token
RejectedThenAccepted ==
    /\ loginAnswers[1] = Response(200, InvalidCredentials)
    /\ loginAnswers[2] = Response(200, TokenBody("t2"))

\* C11: with the 'keyring' strategy, when the first login POST is answered
\* with `invalid_credentials` and the second one would be answered with a
\* token, the constructor makes two login POSTs, succeeds, and the token of
\* the second answer is the Authorization header of every request sent
C11_KeyringRetrySucceeds ==
    (login_method = "keyring" /\ RejectedThenAccepted /\ ConstructionOver)
        => /\ posts = 2
           /\ apc = "constructed"
           /\ creds = "Bearer t2"
           /\ lastRequest # None
                  => lastRequest.headers.Authorization = "Bearer t2"

\* the calls of utils.update_keyring_creds so far
Reprompts ==
    Cardinality({i \in 1..Len(prompted) : prompted[i] = "update_keyring_creds"})

\* two login POSTs were made and both were answered `invalid_credentials`
RejectedTwice ==
    /\ posts = 2
    /\ loginAnswers[1].body = InvalidCredentials
    /\ loginAnswers[2].body = InvalidCredentials

FirstAnswerHandled == apc \in {"reposted", "constructed", "failed"} /\ posts >= 1

\* C13: one call of __authenticate makes at most two login POSTs, and it
\* makes the second one if and only if the strategy is 'keyring' and the
\* first answer carries the error `invalid_credentials`, whatever login_data
\* is; for every other strategy a failed first login ends after one POST
C13_RetryIffKeyringRejected ==
    /\ posts <= 2
    /\ (FirstAnswerHandled /\ loginAnswers[1].status_code = 200)
           => ((posts = 2) <=> (/\ login_method = "keyring"
                                /\ loginAnswers[1].body = InvalidCredentials))

\* C14: when the first login POST is answered with HTTP 403, the locked
\* account is reported, no second login POST is made, no token is stored
\* and the constructor fails, whatever the body of the 403 answer is
C14_LockedAccountTerminal ==
    (posts >= 1 /\ loginAnswers[1].status_code = 403)
        => /\ lockedLogged
           /\ posts = 1
           /\ creds = ""
           /\ ConstructionOver => apc = "failed"

\* the token of the login answer that ended __authenticate
TokenAtLogin == login_token(login_response).value

\* C15: after a client is constructed its stored token is the token
\* obtained at login, every GET, POST and PUT request it sends carries that
\* token as its Authorization header, and no operation of the client
\* changes the stored token or the base URL
C15_SessionTokenInvariant ==
    /\ [](apc = "constructed"
              => /\ creds = TokenAtLogin
                 /\ lastRequest # None
                        => lastRequest.headers.Authorization = TokenAtLogin)
    /\ [][apc = "constructed" => (creds' = creds /\ url' = url)]_vars
C15_Witness ==
    /\ apc = "constructed"
    /\ posts = 2
    /\ lastRequest # None
    /\ lastRequest.method = "put"
    /\ lastRequest.headers.Authorization = "Bearer t2"

\* __authenticate returned True with a non-empty token stored
TokenYielded == logged_in = Bool(TRUE) /\ creds # ""

\* C16: whenever authentication does not yield a non-empty token the
\* constructor fails, so a constructed client holds a non-empty token and
\* no request is ever sent with an empty Authorization header
C16_NoPartialSession ==
    /\ (ConstructionOver /\ ~TokenYielded) => apc = "failed"
    /\ apc = "constructed" => creds # ""
    /\ lastRequest # None => lastRequest.headers.Authorization # ""
C16_Witness ==
    /\ apc = "failed"
    /\ posts = 1
    /\ logged_in = Bool(FALSE)
    /\ creds = ""
    /\ lastRequest = None

\* C17: when the login answer that ends authentication holds no token
\* field, authentication reports its failure (__authenticate returns False),
\* the token stays unset and the constructor fails; this for every body,
\* one that is not JSON included
C17_MissingTokenFails ==
    (ConstructionOver /\ posts >= 1 /\ login_token(login_response).kind # "str")
        => /\ logged_in = Bool(FALSE)
           /\ creds = ""
           /\ apc = "failed"

\* ------------------------------------------- claims: executor, first page
\* C18: for every decoded body that is a mapping with an `error` key,
\* whether the value under `error` is a mapping with a message or a plain
\* reason-code string, the executor returns that body unchanged and raises
\* nothing
C18_ErrorBodyUnchanged ==
    (pc = "done" /\ is_error_mapping(raw_response.body))
        => response = raw_response.body

\* C19: when the first response of a standard fetch is an error mapping or
\* already a flat list, the paginator returns it as it is after exactly one
\* request: no page descriptor is detected and no second page is requested
C19_FirstResponseAsIs ==
    (/\ pc = "done" /\ mode = "standard" /\ faultCall = 1
     /\ (is_error_mapping(faultBody) \/ isinstance_list(faultBody)))
        => /\ result = faultBody
           /\ calls = 1
           /\ page_info = NoPageInfo

\* --------------------------------------------------- claims: validation
ReasonCodes ==
    {"missing_parameter", "invalid_json", "invalid_target",
     "invalid_quantity", "invalid_language"}

\* a target that names no marketplace, mandant or listing with an id
BadTarget(target) ==
    \A e \in DOMAIN target :
        e \notin {"marketplace", "mandant", "listing"} \/ target[e] = 0

\* the arguments of the call do not pass the validation of its method
ValidationFails(call) ==
    LET missing_text == call.lang = "" \/ call.name = ""
        bad_lang == call.lang \notin {"de", "en"}
    IN  CASE call.method = "set_image_availability" ->
                call.item_id = 0 \/ call.image_id = 0 \/ BadTarget(call.target)
          [] call.method = "create_variations" -> call.item_id = 0
          [] call.method = "create_attribute_values" -> call.attribute_id = 0
          [] call.method = "create_attribute_name" ->
                call.attribute_id = 0 \/ missing_text \/ bad_lang
          [] call.method = "create_attribute_value_name" ->
                call.value_id = 0 \/ missing_text \/ bad_lang
          [] call.method = "create_transaction" ->
                call.order_item_id = 0 \/ call.json = BrokenObject
          [] call.method = "create_property_selection_name" ->
                call.property_id = 0 \/ missing_text \/ bad_lang
          [] call.method = "update_redistribution" -> call.order_id = 0
          [] call.method = "update_property_selection_name" ->
                call.name_id = 0 \/ call.name = ""
          [] call.method = "book_incoming_items" -> call.quantity <= 0
          [] call.method = "book_outgoing_items" -> call.quantity >= 0
          [] OTHER -> FALSE

\* C20: whenever the arguments of one of these mutation methods fail its
\* validation, the method issues no request and returns a mapping
\* {error: reason_code} with one of the five reason codes
C20_ValidationErrorMapping ==
    (mcall # None /\ ValidationFails(mcall))
        => /\ mrequests = <<>>
           /\ is_error_mapping(mresult)
           /\ mresult.error \in {Str(code) : code \in ReasonCodes}

\* --------------------------------------------------- claims: order methods
\* C21: plenty_api_create_redistribution and plenty_api_create_reorder
\* answer a malformed template with {error: invalid_template} and make no
\* request for it, so that no order is created on the server
C21_MalformedTemplateRejected ==
    (opc # "none" /\ ~validate_redistribution_template(mcall.template))
        => /\ mrequests = <<>>
           /\ opc = "returned" => mresult = error_mapping("invalid_template")

\* --------------------------------------------------- claims: bad methods
\* C22: an HTTP method outside get, post and put handed to the executor is
\* rejected before any request is sent and reported as an error mapping,
\* not as an exception; an unsupported login method likewise
C22_BadMethodErrorMapping ==
    (/\ mcall # None
     /\ mcall.method = "__plenty_api_request"
     /\ lower(mcall.http_method) \notin {"get", "post", "put"})
        => /\ mrequests = <<>>
           /\ is_error_mapping(mresult)

\* --------------------------------------------------- claims: GET methods
GetMethods ==
    {"get_pending_redistribution", "get_pending_reorder", "get_orders_by_date",
     "get_attributes", "get_price_configuration", "get_property_names",
     "get_property_selections", "get_bi_raw_files"}

\* C23: when the paginator under one of these GET methods returns null or
\* an error mapping, the method returns null or an error mapping: no empty
\* or partial result and no exception
C23_GetFailurePropagates ==
    (/\ mcall # None
     /\ mcall.method \in GetMethods
     /\ mcall.data = None \/ is_error_mapping(mcall.data))
        => mresult = None \/ is_error_mapping(mresult)


\* the requests of a redistribution told apart by their route
is_order_post(r) == r.method = "post" /\ Len(r.path) = 0
is_booking(r) == r.method = "post" /\ Len(r.path) = 2
is_transaction(r, direction) == Len(r.path) = 3 /\ r.data.name = direction
OrderPosts == {i \in 1..Len(mrequests) : is_order_post(mrequests[i])}
OutgoingCreated ==
    {i \in 1..Len(mrequests) : is_transaction(mrequests[i], "outgoing")}
IncomingCreated ==
    {i \in 1..Len(mrequests) : is_transaction(mrequests[i], "incoming")}
Bookings == {i \in 1..Len(mrequests) : is_booking(mrequests[i])}

\* C24: in a run of plenty_api_create_redistribution, with book_out or
\* without, the order POST is the first request, every outgoing transaction
\* is created before the first booking, no incoming transaction is created
\* before the outgoing transactions were booked, and a run that returns
\* the order has booked the incoming transactions after creating them
C24_RedistributionOrdering ==
    mcall.method = "create_redistribution" =>
        /\ OrderPosts \subseteq {1}
        /\ mrequests # <<>> => is_order_post(mrequests[1])
        /\ \A o \in OutgoingCreated : \A b \in Bookings : o < b
        /\ \A i \in IncomingCreated :
                /\ \E b \in Bookings : b < i
                /\ \A o \in OutgoingCreated : o < i
        /\ (opc = "returned" /\ mresult.kind = "dict"
                /\ "error" \notin DOMAIN mresult /\ IncomingCreated # {})
            => \E b \in Bookings : \A i \in IncomingCreated : i < b


\* the call of a batch method that passed its parameter test, its objects
\* and the positions of those that pass the sanity check
BatchCall ==
    /\ mcall # None
    /\ CASE mcall.method = "create_items" -> TRUE
         [] mcall.method = "create_variations" -> mcall.item_id # 0
         [] mcall.method = "create_attribute_values" -> mcall.attribute_id # 0
         [] OTHER -> FALSE
BatchObjects == as_list(mcall.json)
ValidObjects ==
    {i \in 1..Len(BatchObjects) : sanity_check_json(BatchObjects[i])}
Rank(i) == Cardinality({j \in ValidObjects : j <= i})

\* C25: a batch method called with n objects returns a list of n entries
\* in input order, entry i the invalid_json mapping when object i fails
\* the sanity check and the executor's response to object i otherwise; the
\* valid objects, and only they, are posted, in input order
C25_BatchCreation ==
    BatchCall =>
        /\ mresult.kind = "list"
        /\ Len(mresult.items) = Len(BatchObjects)
        /\ \A i \in 1..Len(BatchObjects) :
              IF i \in ValidObjects
              THEN /\ mresult.items[i]
                        = plenty_api_request_return(mcall.answers[Rank(i)])
                   /\ mrequests[Rank(i)] = send("post", BatchObjects[i])
              ELSE mresult.items[i] = error_mapping("invalid_json")
        /\ Len(mrequests) = Cardinality(ValidObjects)


\* C26: in a standard fetch every request after the first asks for the
\* page the previous response reported plus one, and is made only when
\* that response has been returned; the pages asked for rise by one from
\* request to request (1, 2, 3, ... when the caller's query names no
\* page), so no page is asked for twice
C26_PageSequencing ==
    mode = "standard" =>
        /\ \A i \in 2..Len(requested) : requested[i] = requested[i - 1] + 1
        /\ StartsAtFirstPage =>
                \A i \in 1..Len(requested) : requested[i] = i
        /\ (calls > 1 /\ pc \in {"request", "response"}) =>
                /\ isinstance_dict(response)
                /\ response.page = requested[calls - 1]
                /\ requested[calls] = response.page + 1
C26_Witness ==
    /\ mode = "standard"
    /\ pc = "done"
    /\ StartsAtFirstPage
    /\ requested = <<1, 2, 3>>
    /\ isinstance_list(result)


\* the keys a paginator may write: page, and for the probing paginator
\* itemsPerPage when the caller left it out
WrittenKeys ==
    IF mode = "unpaginated" THEN {"page"} \cup ({"itemsPerPage"} \ DOMAIN query0)
    ELSE {"page"}
\* the mapping q holds every key of the caller's query, outside the
\* written ones with the caller's value, and no key besides
FrameKept(q) ==
    /\ DOMAIN query0 \subseteq DOMAIN q
    /\ DOMAIN q \subseteq DOMAIN query0 \cup WrittenKeys
    /\ \A k \in DOMAIN query0 \ WrittenKeys : q[k] = query0[k]
    /\ ("itemsPerPage" \in DOMAIN q \ DOMAIN query0)
            => q["itemsPerPage"] = DefaultItemsPerPage

\* C27: during a fetch the query mapping and the query of every request
\* differ from the caller's query in `page` alone (for the probing
\* paginator also in an itemsPerPage the caller left out, set once to the
\* default); each request is sent with the caller's mapping itself, as the
\* paginator has updated it
C27_QueryFrame ==
    /\ FrameKept(query)
    /\ pc = "response" =>
            /\ attempt.query = query
            /\ FrameKept(attempt.query)
            /\ FrameKept(first.query)
C27_Witness ==
    /\ mode = "standard"
    /\ pc = "response"
    /\ calls = 3
    /\ "itemsPerPage" \in DOMAIN query0
    /\ attempt.query["page"] = 3
    /\ query0 # query


\* C28: in a probing fetch a request follows only an executor call that
\* returned a page; when the executor returns None or an error mapping,
\* for the first request or a later one, the paginator returns that very
\* value and makes no further request, and the records gathered before are
\* not returned as a sequence
C28_ProbingFailureStopsLoop ==
    mode = "unpaginated" =>
        /\ (pc \in {"request", "response"} /\ calls >= 2)
               => (~ExecutorFailed /\ isinstance_dict(response))
        /\ (pc = "done" /\ ExecutorFailed) => result = response
        /\ (pc = "done" /\ result.kind = "list")
               => (~ExecutorFailed /\ (faultCall # 0 => result = faultBody))
        /\ faultCall # 0 => calls = faultCall

\* C28 witness: the third request of a probing fetch was answered with an
\* error mapping after two full pages were gathered, and the fetch
\* returned the mapping
C28_Witness ==
    /\ pc = "done" /\ mode = "unpaginated" /\ faultCall = 3
    /\ is_error_mapping(response) /\ result = response
    /\ Len(entries) >= 2 * SuppliedItemsPerPage


\* the calls of the executor one fetch can make
MaxCalls == MaxPages + 1
\* the n-th call of the executor is running: its loop has not been left
Running(n) == calls = n /\ pc \in {"request", "response"}
\* the n-th call of the executor has returned
ReturnedFrom(n) == calls > n \/ (calls = n /\ pc = "done")

\* C29: every call of the executor returns, given a server that answers
\* with a status other than 429 if asked again and again; the executor
\* returns on a status other than 429 only, and a 429 answer is followed by
\* nothing but the next attempt of the same call
C29_ExecutorReturns ==
    /\ \A n \in 1..MaxCalls : Running(n) ~> ReturnedFrom(n)
    /\ [][/\ (\E n \in 1..MaxCalls : Running(n) /\ ReturnedFrom(n)')
              => raw_response.status_code # TooManyRequests
          /\ (pc = "response"
                /\ raw_response.status_code = TooManyRequests)
              => (pc' = "request" /\ calls' = calls
                    /\ UNCHANGED <<response, result, query>>)]_vars

\* C29 witness: a call returned after the server had answered 429
\* MaxThrottle times or more
C29_Witness ==
    /\ pc = "done"
    /\ throttles = MaxThrottle
    /\ returnStatus # TooManyRequests
    /\ raw_response.status_code # TooManyRequests


\* the requests a standard fetch needs: one per page from the page the
\* query starts at to the last page, one when it starts at or past the last
PagesToFetch ==
    IF RequestedPage(query0) >= Len(pages) THEN 1
    ELSE Len(pages) - RequestedPage(query0) + 1

\* C30: a standard fetch against a server of last_page pages ends; when no
\* request failed it ends after exactly one executor call per page (one
\* call when the first page answered is the last), on the response that
\* reports the last page, and with a sequence; it ends before that only
\* with the call that failed
C30_StandardTerminates ==
    /\ (mode = "standard") ~> (mode = "standard" /\ pc = "done")
    /\ [](mode = "standard" => calls <= PagesToFetch)
    /\ []((mode = "standard" /\ pc = "done") =>
            IF faultCall = 0
            THEN /\ calls = PagesToFetch
                 /\ response.isLastPage
                 /\ isinstance_list(result)
            ELSE calls = faultCall)

\* C30 witness: a fetch of a server with MaxPages pages ended after
\* MaxPages calls, none of which failed
C30_Witness ==
    /\ mode = "standard" /\ pc = "done" /\ faultCall = 0
    /\ Len(pages) = MaxPages /\ calls = MaxPages


\* a call of a pending-orders method whose fetch returned a sequence of
\* orders, and the positions in it of the orders without a finish date
PendingCall ==
    /\ mcall # None
    /\ mcall.method \in {"get_pending_reorder", "get_pending_redistribution"}
    /\ isinstance_list(mcall.data)
Unfinished ==
    {i \in 1..Len(mcall.data.items) :
        \A d \in 1..Len(mcall.data.items[i].dates) :
            mcall.data.items[i].dates[d].typeId # "finish"}
\* the position of the k-th unfinished order
NthUnfinished(k) ==
    CHOOSE i \in Unfinished : Cardinality({j \in Unfinished : j <= i}) = k

\* C33: for a fetched sequence of orders the pending-orders methods return
\* the orders without a date of the finish type and no others, each once,
\* in the order of the fetched sequence
C33_PendingOrders ==
    PendingCall =>
        /\ isinstance_list(mresult)
        /\ Len(mresult.items) = Cardinality(Unfinished)
        /\ \A k \in 1..Len(mresult.items) :
              /\ mresult.items[k].id = mcall.data.items[NthUnfinished(k)].id
              /\ mresult.items[k].dates
                    = mcall.data.items[NthUnfinished(k)].dates
              /\ mcall.method = "get_pending_reorder"
                    => mresult.items[k] = mcall.data.items[NthUnfinished(k)]

\* C33 witness: of three fetched orders the first is finished; the second
\* and the third are returned
C33_Witness ==
    /\ PendingCall
    /\ mcall.method = "get_pending_reorder"
    /\ Len(mcall.data.items) = 3
    /\ Unfinished = {2, 3}
    /\ Len(mresult.items) = 2


\* C31: the data_format of a constructed client is 'json' or 'dataframe':
\* 'dataframe' when the argument spells it, in whatever case, 'json' for
\* every other argument; no operation of the constructed client changes it
C31_DataFormatInvariant ==
    /\ [](apc = "constructed" =>
            /\ data_format \in {"json", "dataframe"}
            /\ data_format = "dataframe"
                  <=> data_format_arg \in {"dataframe", "DataFrame"})
    /\ [][apc = "constructed" => data_format' = data_format]_vars

\* C31 witness: a client constructed with data_format 'csv' holds 'json'
\* and has sent a request
C31_Witness ==
    /\ apc = "constructed"
    /\ data_format_arg = "csv"
    /\ data_format = "json"
    /\ lastRequest # None


\* the same fetch run alone: the paginator's steps on the values the
\* executor returned to it, one after the other
alone_first(paginator, q, got) ==
    IF paginator = "standard" THEN standard_first(got, q)
    ELSE unpaginated_first(got, unpaginated_defaults(q))
alone_next(paginator, s, got) ==
    IF paginator = "standard"
    THEN standard_next(got, s.query, s.entries, s.page_info)
    ELSE unpaginated_next(got, s.query, s.entries, s.page_info)
RECURSIVE alone(_, _, _, _)
alone(paginator, s, answers, n) ==
    IF s.done \/ n > Len(answers) THEN s
    ELSE alone(paginator, alone_next(paginator, s, answers[n]), answers, n + 1)
RunAlone(f) ==
    alone(f.mode, alone_first(f.mode, f.query0, f.answers[1]), f.answers, 2)

\* fetch i is, after the answers it got so far, where the same fetch run
\* alone is after them
AsAlone(i) ==
    LET f == fetches[i]
    IN  /\ f.answers # <<>> =>
              /\ RunAlone(f).done = (f.pc = "done")
              /\ f.query = RunAlone(f).query
              /\ f.entries = RunAlone(f).entries
              /\ f.pc = "done" => f.result = RunAlone(f).result
        /\ (f.pc = "done" /\ ~f.faulted /\ f.mode = "standard") =>
              f.result = List(ConcatPages(pages, RequestedPage(f.query0),
                                          Len(pages)))
        /\ f.pc = "response" =>
              /\ f.attempt.query = f.query
              /\ f.attempt.url = clients[owner[i]].url
              /\ f.attempt.headers.Authorization = clients[owner[i]].creds

\* C32: two fetches whose steps interleave, on one client or on two, each
\* with its own query mapping and accumulator, go through the states and
\* return the result of the same fetch run alone; a step of one fetch
\* leaves the local variables of the other as they are, and no step writes
\* the sessions (url, token, data_format) the requests are sent with
C32_FetchesIndependent ==
    /\ [](fetches # <<>> => \A i \in Fetchers : AsAlone(i))
    /\ [][/\ clients' = clients
          /\ \A i \in DOMAIN fetches : \A j \in DOMAIN fetches :
                (i # j /\ fetches'[i] # fetches[i])
                    => fetches'[j] = fetches[j]]_vars

\* C32 witness: two standard fetches on one client, from page 1 and from
\* page 2, were running at the same time and returned their own pages
C32_Witness ==
    /\ fetches # <<>>
    /\ owner = <<1, 1>>
    /\ overlapped
    /\ \A i \in Fetchers :
          /\ fetches[i].pc = "done"
          /\ fetches[i].mode = "standard"
          /\ isinstance_list(fetches[i].result)
    /\ fetches[1].calls = 2
    /\ Len(fetches[1].result.items) = 2 * DefaultItemsPerPage
    /\ Len(fetches[2].result.items) = DefaultItemsPerPage

====
